---------------------------- MODULE Spec2Model ----------------------------
(***************************************************************************)
(* A model of the Songcast grouping flow of openhome-tools                 *)
(* (songcast_group.py): the derived `grouped` flag, the candidate list     *)
(* built by _receiver_join, the candidate loop with its polls, the         *)
(* last-resort SOAP application and the orchestrator's verification.       *)
(*                                                                         *)
(* Python strings are sequences of one-character strings, so that          *)
(* str.lower(), str.startswith() and urlparse().scheme are computed and    *)
(* not assumed.  None is the value None below; a call that raises is a     *)
(* response whose field `raised` is TRUE.                                  *)
(***************************************************************************)
EXTENDS Naturals, Integers, Sequences, FiniteSets, TLC

(***************************************************************************)
(* Strings                                                                 *)
(***************************************************************************)
None == <<"None">>

Truthy(x) == x # None /\ x # <<>>

\* Python's `a or b`
Or(a, b) == IF Truthy(a) THEN a ELSE b

UpperChars ==
  <<"A","B","C","D","E","F","G","H","I","J","K","L","M",
    "N","O","P","Q","R","S","T","U","V","W","X","Y","Z">>

LowerChars ==
  <<"a","b","c","d","e","f","g","h","i","j","k","l","m",
    "n","o","p","q","r","s","t","u","v","w","x","y","z">>

Digits == {"0","1","2","3","4","5","6","7","8","9"}

Range(s) == {s[i] : i \in 1..Len(s)}

UpperSet == Range(UpperChars)

Letters == Range(UpperChars) \cup Range(LowerChars)

\* the lower-case letter of each upper-case letter
LowerOf == [c \in UpperSet |-> LowerChars[CHOOSE i \in 1..Len(UpperChars) : UpperChars[i] = c]]

LowerChar(c) == IF c \in UpperSet THEN LowerOf[c] ELSE c

\* str.lower()
Lower(s) == [i \in 1..Len(s) |-> LowerChar(s[i])]

\* str.startswith(p)
StartsWith(s, p) == Len(s) >= Len(p) /\ SubSeq(s, 1, Len(p)) = p

\* str.find(c): the first index (1-based) of the character, 0 when absent
Find(s, c) ==
  IF \E i \in 1..Len(s) : s[i] = c
  THEN CHOOSE i \in 1..Len(s) : s[i] = c /\ \A j \in 1..(i-1) : s[j] # c
  ELSE 0

SchemeChars == Letters \cup Digits \cup {"+", "-", "."}

\* urlparse(u).scheme: the text before the first ':' when it starts with a
\* letter and holds only scheme characters, lower-cased; else empty.
UrlScheme(u) ==
  LET i == Find(u, ":") IN
    IF /\ i > 1
       /\ u[1] \in Letters
       /\ \A j \in 1..(i-1) : u[j] \in SchemeChars
    THEN Lower(SubSeq(u, 1, i-1))
    ELSE <<>>

sOhz == <<"o","h","z">>
sOhzPrefix == <<"o","h","z",":","/","/">>
sPlaying == <<"p","l","a","y","i","n","g">>
sBuffering == <<"b","u","f","f","e","r","i","n","g">>
sConnecting == <<"c","o","n","n","e","c","t","i","n","g">>

\* the tuple ("playing", "buffering", "connecting") of lines 256 and 403
ActiveStates == {sPlaying, sBuffering, sConnecting}

(***************************************************************************)
(* Responses of a device to the control calls the flow reads               *)
(***************************************************************************)
\* Receiver.Sender: a dict read as sres.get("Uri") or sres.get("uri") or ""
SenderResp(raised, U, u) == [raised |-> raised, Uri |-> U, uri |-> u]

\* Receiver.TransportState: ts.get("TransportState") or ts.get("state") or ""
TsResp(raised, T, t) == [raised |-> raised, TransportState |-> T, state |-> t]

\* _is_grouped with the `or` of line 256 replaced by `and`: a plausible slip
IsGroupedRuleAnd(recvPresent, sres, ts) ==
  /\ recvPresent
  /\ ~sres.raised
  /\ LET uri_val == Or(Or(sres.Uri, sres.uri), <<>>)
     IN Truthy(uri_val) /\ Lower(UrlScheme(uri_val)) = sOhz
  /\ ~ts.raised
  /\ Lower(Or(Or(ts.TransportState, ts.state), <<>>)) \in ActiveStates

\* _is_grouped without the .lower() of line 255
IsGroupedRuleCase(recvPresent, sres, ts) ==
  IF ~recvPresent THEN FALSE
  ELSE IF /\ ~sres.raised
          /\ LET uri_val == Or(Or(sres.Uri, sres.uri), <<>>)
             IN Truthy(uri_val) /\ Lower(UrlScheme(uri_val)) = sOhz
       THEN TRUE
       ELSE IF ts.raised THEN FALSE
            ELSE Or(Or(ts.TransportState, ts.state), <<>>) \in ActiveStates

\* _is_grouped, given what the two calls it makes return
IsGroupedRule(recvPresent, sres, ts) ==
  IF ~recvPresent THEN FALSE
  ELSE IF /\ ~sres.raised
          /\ LET uri_val == Or(Or(sres.Uri, sres.uri), <<>>)
             IN Truthy(uri_val) /\ Lower(UrlScheme(uri_val)) = sOhz
       THEN TRUE
       ELSE IF ts.raised THEN FALSE
            ELSE Lower(Or(Or(ts.TransportState, ts.state), <<>>)) \in ActiveStates


(***************************************************************************)
(* Program constants and the bounds of the model                           *)
(***************************************************************************)
\* for _ in range(8): the polls of one candidate
PollAttempts == 8

\* for _ in range(6): the Receiver.Senders retries
SendersAttempts == 6

\* the number of followers in self.slaves
NumReceivers == 2

(***************************************************************************)
(* The URIs and names the devices of the model report                      *)
(***************************************************************************)
\* self.master_udn; main() exits before the run when it is missing
Udn == <<"u">>

sDefaultPrefix ==
  <<"o","h","z",":","/","/","2","3","9",".","2","5","5",".","2","5","5",".",
    "2","5","0",":","5","1","9","7","2","/">>

sSongcastPrefix == <<"o","h","S","o","n","g","c","a","s","t",":","/","/">>

\* f"ohz://239.255.255.250:51972/{leader_udn}"
DefaultOhz(leader_udn) == sDefaultPrefix \o leader_udn

RoomK == <<"K"," ","1">>
NameN == <<"N">>
\* self.master_name: the friendly name, Product.Name or the IP, never empty
MasterName == <<"F">>
TitleOther == <<"X">>

OhzA == <<"o","h","z",":","/","/","a">>
OhzB == <<"o","h","z",":","/","/","b">>
OhzUpper == <<"O","H","Z",":","/","/","c">>
HttpUri == <<"h","t","t","p",":","/","/","h">>
OhmUri == <<"o","h","m",":","/","/","m">>

Safe == Letters \cup Digits \cup {"_", ".", "-", "~"}

\* urllib.parse.quote_plus of one character (the characters the model's
\* names hold: safe ones, the space, and the separators of a query)
QuotePlusChar(c) ==
  IF c = " " THEN <<"+">>
  ELSE IF c \in Safe THEN <<c>>
  ELSE IF c = "&" THEN <<"%","2","6">>
  ELSE IF c = "=" THEN <<"%","3","D">>
  ELSE IF c = "/" THEN <<"%","2","F">>
  ELSE <<"%","3","F">>

RECURSIVE QuotePlus(_)
QuotePlus(s) == IF s = <<>> THEN <<>> ELSE QuotePlusChar(Head(s)) \o QuotePlus(Tail(s))

\* _build_sender_uri: "ohSongcast://<udn>" and the query urlencode() makes of
\* the room and the name that are set, the room first
BuildSenderUri(leader_udn, leader_name, leader_room) ==
  LET room == IF Truthy(leader_room)
              THEN <<"r","o","o","m","=">> \o QuotePlus(leader_room) ELSE <<>>
      name == IF Truthy(leader_name)
              THEN <<"n","a","m","e","=">> \o QuotePlus(leader_name) ELSE <<>>
      amp  == IF room # <<>> /\ name # <<>> THEN <<"&">> ELSE <<>>
      q    == IF room # <<>> \/ name # <<>> THEN <<"?">> \o room \o amp \o name ELSE <<>>
  IN sSongcastPrefix \o leader_udn \o q

(***************************************************************************)
(* Candidate resolution: lines 277-343 of _receiver_join                   *)
(***************************************************************************)
RECURSIVE LStrip(_)
LStrip(s) == IF s # <<>> /\ Head(s) = " " THEN LStrip(Tail(s)) ELSE s

RECURSIVE RStrip(_)
RStrip(s) == IF s # <<>> /\ s[Len(s)] = " " THEN RStrip(SubSeq(s, 1, Len(s) - 1)) ELSE s

\* str.strip() of the text of a title element
Strip(s) == RStrip(LStrip(s))

\* the answer of the leader's Sender.Sender: svc is "ssvc is not None"
LeaderResp(svc, raised, U, u) == [svc |-> svc, raised |-> raised, Uri |-> U, uri |-> u]

\* lines 277-294 with the final append made only when the leader reported
\* no URI (the list then never holds the leader's URI twice)
LeaderCandidatesOnce(resp, leader_udn, leader_name, leader_room) ==
  LET got == IF resp.svc /\ ~resp.raised THEN Or(resp.Uri, resp.uri) ELSE None
  IN IF Truthy(got) THEN <<got>>
     ELSE <<BuildSenderUri(leader_udn, leader_name, leader_room)>>

\* lines 277-294 without the fallback of lines 292-294
LeaderCandidatesNoBuild(resp, leader_udn, leader_name, leader_room) ==
  LET got == IF resp.svc /\ ~resp.raised THEN Or(resp.Uri, resp.uri) ELSE None
  IN IF Truthy(got) THEN <<got>> ELSE <<>>

\* lines 277-294: candidate_uris after the leader's own Sender was asked
LeaderCandidates(resp, leader_udn, leader_name, leader_room) ==
  LET got   == IF resp.svc /\ ~resp.raised THEN Or(resp.Uri, resp.uri) ELSE None
      first == IF Truthy(got) THEN <<got>> ELSE <<>>
      uri   == IF Truthy(got) THEN got
               ELSE BuildSenderUri(leader_udn, leader_name, leader_room)
  IN Append(first, uri)

\* one <item> of the Senders list: the text of its title child (None when it
\* has none) and the texts of its res children, in document order
Item(title, res) == [title |-> title, res |-> res]

\* lines 324-329: the res texts of an item that start with "ohz://"
ItemOhz(it) == SelectSeq(it.res, LAMBDA t : StartsWith(t, sOhzPrefix))

ItemTitle(it) == IF it.title = None THEN None ELSE Strip(it.title)

\* lines 330-333: whether the item is the exact match that ends the scan
ItemExact(it, leader_room, leader_name) ==
  /\ Truthy(ItemTitle(it))
  /\ ItemOhz(it) # <<>>
  /\ \/ Truthy(leader_room) /\ ItemTitle(it) = leader_room
     \/ Truthy(leader_name) /\ ItemTitle(it) = leader_name

\* lines 320-334: exact or (fallbacks[0] if fallbacks else None)
RECURSIVE PickOhz(_, _, _, _)
PickOhz(items, leader_room, leader_name, fallbacks) ==
  IF items = <<>>
  THEN IF fallbacks # <<>> THEN fallbacks[1] ELSE None
  ELSE IF ItemExact(Head(items), leader_room, leader_name)
       THEN ItemOhz(Head(items))[1]
       ELSE PickOhz(Tail(items), leader_room, leader_name,
                    fallbacks \o ItemOhz(Head(items)))

\* the answer of Receiver.Senders: the call raised, or the list is missing or
\* blank ("none"), or not XML ("badxml"), or parses into items ("list")
SendersResp(raised, kind, items) == [raised |-> raised, kind |-> kind, items |-> items]

\* lines 314-338: ohz_uri after one attempt (it was None before it)
SendersAttemptResult(resp, leader_room, leader_name) ==
  IF resp.raised \/ resp.kind # "list" THEN None
  ELSE PickOhz(resp.items, leader_room, leader_name, <<>>)

\* lines 340-343 with the two inserts turned into appends
InsertPreferredLast(candidate_uris, ohz_uri, leader_udn) ==
  IF Truthy(ohz_uri) THEN Append(candidate_uris, ohz_uri)
  ELSE IF Truthy(leader_udn) THEN Append(candidate_uris, DefaultOhz(leader_udn))
  ELSE candidate_uris

\* lines 340-343: the discovered ohz URI, else the synthesized default, is
\* inserted at position 0
InsertPreferred(candidate_uris, ohz_uri, leader_udn) ==
  IF Truthy(ohz_uri) THEN <<ohz_uri>> \o candidate_uris
  ELSE IF Truthy(leader_udn) THEN <<DefaultOhz(leader_udn)>> \o candidate_uris
  ELSE candidate_uris

\* line 354 and line 403: str(cand).lower().startswith("ohz://")
IsOhzCand(cand) == StartsWith(Lower(cand), sOhzPrefix)

\* line 403 with the scheme test dropped
AcceptsAnyScheme(cand, state, grouped_now) ==
  grouped_now \/ state \in ActiveStates

\* line 403: the test that accepts a candidate at a poll
Accepts(cand, state, grouped_now) ==
  grouped_now \/ (IsOhzCand(cand) /\ state \in ActiveStates)

(***************************************************************************)
(* What the devices of the model may answer                                *)
(***************************************************************************)
LeaderRooms == {None, RoomK}
LeaderNames == {NameN, MasterName}

LeaderResps ==
  { LeaderResp(FALSE, FALSE, None, None),
    LeaderResp(TRUE, TRUE, None, None),
    LeaderResp(TRUE, FALSE, None, None),
    LeaderResp(TRUE, FALSE, OhmUri, None),
    LeaderResp(TRUE, FALSE, None, DefaultOhz(Udn)) }

SendersLists ==
  { <<>>,
    << Item(RoomK \o <<" ">>, <<OhzA>>) >>,
    << Item(TitleOther, <<OhzB>>), Item(NameN, <<HttpUri, OhzA>>) >>,
    << Item(None, <<OhzUpper>>), Item(TitleOther, <<OhzUpper, OhzB>>) >>,
    << Item(TitleOther, <<HttpUri>>) >> }

SendersResps ==
  { SendersResp(TRUE, "none", <<>>),
    SendersResp(FALSE, "none", <<>>),
    SendersResp(FALSE, "badxml", <<>>) }
  \cup { SendersResp(FALSE, "list", l) : l \in SendersLists }

sStopped == <<"S","t","o","p","p","e","d">>
sDevBuffering == <<"B","u","f","f","e","r","i","n","g">>
sDevPlaying == <<"P","l","a","y","i","n","g">>

\* the transport states a receiver reports, as it spells them
DevStates == { sStopped, sDevBuffering, sDevPlaying }

\* the sender URIs a receiver may hold when a run starts
DevUris0 == { <<>>, DefaultOhz(Udn) }

(***************************************************************************)
(* State                                                                   *)
(***************************************************************************)
VARIABLES
  pc,             \* where create_songcast_group_async / _receiver_join stands
  r,              \* the index in self.slaves of the follower being configured
  all_ok,         \* all_ok of create_songcast_group_async
  recvPresent,    \* whether the follower has a Receiver service (recv is not None)
  leader_room,    \* locals of _receiver_join
  leader_name,
  candidate_uris,
  ohz_uri,
  sq,             \* iterations of the Senders loop made
  ci,             \* index of cand in candidate_uris (1-based)
  pi,             \* iterations of the poll loop made for cand
  ok,
  state,
  grouped_now,
  joined,         \* what _receiver_join returned
  grouped,        \* grouped of the verification step
  rUri,           \* the follower device: its current sender URI
  startKind,      \* history: how the follower was grouped when its join began
  sent,           \* history: the commands the join has issued to the follower
  readFailed,     \* history: a query raised in a poll of the first candidate
  inLeader,       \* history: what the leader's Sender.Sender answered
  inSenders,      \* history: what the last Receiver.Senders attempt answered
  gq,             \* the inputs of one call of _is_grouped taken alone
  gdone,
  gres

\* the process around create_songcast_group_async: main() and its exit
VARIABLES
  nslaves,        \* len(self.slaves)
  masterGiven,    \* main(): master_ip and master_udn are both resolved
  success,        \* what create_songcast_group_async returned
  exit_code,      \* the argument of sys.exit, NoExit while the process runs
  outcomes        \* history: per follower taken up, what became of it

runVars == << nslaves, masterGiven, success, exit_code, outcomes >>

\* the event monitor (tests/songcast_monitor.py): one DeviceMonitor, its
\* listening thread, the assertions of the test and main()'s thread
VARIABLES
  mpc,            \* where main() of the monitor stands
  tpc,            \* where the thread running DeviceMonitor.listen stands
  running,        \* self.running
  sock,           \* self.sock: None, or the socket object
  sockOpen,       \* whether the socket the monitor created is open
  mon_state,      \* self.state: the snapshot, variable -> value (None: no entry)
  assertions,     \* the StateAssertion objects of the test, in order
  now,            \* time.time()
  test_mode,
  started,        \* main(): the assertions whose start() has been called
  line,           \* history: the last line handed to _process_event
  notes,          \* history: the changes that line made, in order
  exitCause,      \* history: why the read loop was left
  note,           \* the arguments of one call of StateAssertion.check taken alone
  ret,            \* what that call returned
  before,         \* the assertion, or the snapshot, before a call taken alone
  done            \* whether the call taken alone has been made

monVars ==
  << mpc, tpc, running, sock, sockOpen, mon_state, assertions, now, test_mode,
     started, line, notes, exitCause, note, ret, before, done >>

\* the configuration both programs read, and what their main() makes of it
VARIABLES
  config,         \* the .env file and the command line
  slaves,         \* songcast_group main(): the followers resolved
  all_devices,    \* songcast_monitor: the devices load_env_config returns
  monitors        \* songcast_monitor main(): the DeviceMonitor objects created

cfgVars == << config, slaves, all_devices, monitors >>

\* the preparation of one follower before its join
VARIABLES
  woke,           \* what wake_device returned: "none" before the call
  product,        \* what the follower's Product service answers
  calls,          \* the SetSourceIndex calls issued, in order
  srcRet          \* what set_source_to_songcast returned: "none" before the call

prepVars == << woke, product, calls, srcRet >>

\* the event connection of a monitor while it is set up
VARIABLES
  wire,           \* what the client has sent on the connection, in order
  received        \* the buffer of the read loop under way, chunk by chunk

connVars == << wire, received >>

\* the status reporter, wait_for_state, and the lines a monitor is fed
VARIABLES
  np,             \* now_playing.query_device: what it is asked and what it derives
  wait,           \* wait_for_state: its arguments and its start time
  last_state,     \* wait_for_state: last_state
  wret,           \* wait_for_state: what it returned
  feed,           \* what the device sends on the event connection
  fed,            \* how many chunks of it listen() has read
  processed,      \* the EVENT lines the monitor handled, in order, and how
  lastRead        \* how the last recv() of listen() ended

restVars == << np, wait, last_state, wret, feed, fed, processed, lastRead >>

\* the variables of the specifications other than the join and _is_grouped
otherVars == << runVars, monVars, cfgVars, prepVars, connVars, restVars >>

vars ==
  << pc, r, all_ok, recvPresent, leader_room, leader_name, candidate_uris,
     ohz_uri, sq, ci, pi, ok, state, grouped_now, joined, grouped, rUri,
     startKind, sent, readFailed, inLeader, inSenders, gq, gdone, gres,
     otherVars >>

gvars == << gq, gdone, gres >>

\* exit_code while sys.exit has not been reached: no code a run ends with
NoExit == 0 - 1

\* no process around the run is modelled
RunIdle ==
  /\ nslaves = 0
  /\ masterGiven = FALSE
  /\ success = FALSE
  /\ exit_code = NoExit
  /\ outcomes = <<>>

\* no call of check or _process_event taken alone is modelled
CallIdle ==
  /\ note = None
  /\ ret = FALSE
  /\ before = None
  /\ done = FALSE

\* no monitor is modelled
MonIdle ==
  /\ mpc = "idle"
  /\ tpc = "none"
  /\ running = FALSE
  /\ sock = None
  /\ sockOpen = FALSE
  /\ mon_state = None
  /\ assertions = <<>>
  /\ now = 1
  /\ test_mode = FALSE
  /\ started = 0
  /\ line = None
  /\ notes = <<>>
  /\ exitCause = "none"
  /\ CallIdle

\* no configuration is modelled
CfgIdle ==
  /\ config = None
  /\ slaves = <<>>
  /\ all_devices = <<>>
  /\ monitors = <<>>

\* no preparation of a follower is modelled
PrepIdle ==
  /\ woke = "none"
  /\ product = None
  /\ calls = <<>>
  /\ srcRet = "none"

\* no connection set-up is modelled
ConnIdle ==
  /\ wire = <<>>
  /\ received = <<>>

\* no report, no wait_for_state and no feed is modelled
RestIdle ==
  /\ np = None
  /\ wait = None
  /\ last_state = None
  /\ wret = None
  /\ feed = None
  /\ fed = 0
  /\ processed = <<>>
  /\ lastRead = "none"

OthersIdle == RunIdle /\ MonIdle /\ CfgIdle /\ PrepIdle /\ ConnIdle /\ RestIdle

histVars == << startKind, sent, readFailed, inLeader, inSenders >>

resolveVars == << leader_room, leader_name, candidate_uris, ohz_uri, sq >>

loopVars == << ci, pi, ok, state, grouped_now >>

NoLeaderResp == LeaderResp(FALSE, FALSE, None, None)

NoSendersResp == SendersResp(FALSE, "none", <<>>)

NoGq == [recv |-> FALSE, sres |-> SenderResp(TRUE, None, None), cls |-> "unknown",
         ts |-> TsResp(TRUE, None, None), active |-> FALSE]

\* the locals of a join and the follower's device before a follower is taken up
FollowerReset ==
  /\ recvPresent' = FALSE
  /\ leader_room' = None
  /\ leader_name' = None
  /\ candidate_uris' = <<>>
  /\ ohz_uri' = None
  /\ sq' = 0
  /\ ci' = 0
  /\ pi' = 0
  /\ ok' = FALSE
  /\ state' = None
  /\ grouped_now' = FALSE
  /\ joined' = FALSE
  /\ grouped' = FALSE
  /\ rUri' = <<>>
  /\ startKind' = "none"
  /\ sent' = {}
  /\ readFailed' = FALSE
  /\ inLeader' = NoLeaderResp
  /\ inSenders' = NoSendersResp

Init ==
  /\ pc = "init"
  /\ r = 1
  /\ all_ok = TRUE
  /\ recvPresent = FALSE
  /\ leader_room = None
  /\ leader_name = None
  /\ candidate_uris = <<>>
  /\ ohz_uri = None
  /\ sq = 0
  /\ ci = 0
  /\ pi = 0
  /\ ok = FALSE
  /\ state = None
  /\ grouped_now = FALSE
  /\ joined = FALSE
  /\ grouped = FALSE
  /\ rUri = <<>>
  /\ startKind = "none"
  /\ sent = {}
  /\ readFailed = FALSE
  /\ inLeader = NoLeaderResp
  /\ inSenders = NoSendersResp
  /\ gq = NoGq
  /\ gdone = FALSE
  /\ gres = FALSE
  /\ OthersIdle

(***************************************************************************)
(* What a query of the follower may return.  The sender URI is what the    *)
(* follower holds; the transport state is whatever the follower is doing   *)
(* at that moment (it changes by itself); either query may raise.          *)
(***************************************************************************)
SenderReads == { SenderResp(TRUE, None, None), SenderResp(FALSE, rUri, None) }

TsReads == { TsResp(TRUE, None, None) } \cup { TsResp(FALSE, s, None) : s \in DevStates }

cand == candidate_uris[ci]

(***************************************************************************)
(* create_songcast_group_async: the loop over the followers                *)
(***************************************************************************)
\* the loop over the followers left at the first follower that failed
AdvanceStopsAtFailure ==
  /\ FollowerReset
  /\ IF r < NumReceivers /\ all_ok
     THEN r' = r + 1 /\ pc' = "init"
     ELSE r' = r /\ pc' = "done"

\* lines 479, 521: the next follower of self.slaves, or the end of the loop
Advance ==
  /\ FollowerReset
  /\ IF r < NumReceivers
     THEN r' = r + 1 /\ pc' = "init"
     ELSE r' = r /\ pc' = "done"

\* lines 483-488: _init_dev raises (the follower is skipped, all_ok = False)
\* or gives the device, which holds any of the sender URIs a follower may hold
InitFollower ==
  /\ pc = "init"
  /\ \/ /\ all_ok' = FALSE
        /\ Advance
     \/ /\ \E u \in DevUris0, p \in BOOLEAN :
             /\ rUri' = u
             /\ recvPresent' = p
        /\ pc' = "wake"
        /\ UNCHANGED << r, all_ok, resolveVars, loopVars, joined, grouped, histVars >>
  /\ UNCHANGED << gvars, otherVars >>

\* lines 495-506: wake_device and set_source_to_songcast swallow their
\* failures and their results are not read; neither sends a Receiver command
WakeFollower ==
  /\ pc = "wake"
  /\ pc' = "join"
  /\ UNCHANGED << r, all_ok, recvPresent, resolveVars, loopVars, joined, grouped,
                  rUri, histVars, gvars, otherVars >>

(***************************************************************************)
(* _receiver_join                                                          *)
(***************************************************************************)
\* how the derived flag of lines 240-260 holds of a follower: by the scheme
\* of its sender URI, by its transport state alone, or not at all
StartKindOf(u, s) ==
  IF Truthy(u) /\ UrlScheme(u) = sOhz THEN "ohz"
  ELSE IF Lower(s) \in ActiveStates THEN "active"
  ELSE "none"

\* lines 263-275: no Receiver service: return False; else the leader's room
\* (None when room() raises) and name (the fallback when name() raises)
JoinStart ==
  /\ pc = "join"
  /\ IF ~recvPresent
     THEN /\ joined' = FALSE
          /\ pc' = "verify"
          /\ UNCHANGED << leader_room, leader_name, startKind >>
     ELSE /\ \E room \in LeaderRooms, name \in LeaderNames :
               /\ leader_room' = room
               /\ leader_name' = name
          /\ \E s \in DevStates : startKind' = StartKindOf(rUri, s)
          /\ pc' = "leader"
          /\ UNCHANGED joined
  /\ UNCHANGED << r, all_ok, recvPresent, candidate_uris, ohz_uri, sq, loopVars,
                  grouped, rUri, sent, readFailed, inLeader, inSenders, gvars, otherVars >>

\* the except of lines 289-291 dropped: an exception of the leader's Sender
\* query reaches the outer except of line 445 and the join returns False
AfterLeaderQueryRaising(resp) == IF resp.raised THEN "verify" ELSE "senders"

\* lines 281-291: the leader's Sender query is followed by the Senders loop
\* whether it raised or not
AfterLeaderQuery(resp) == "senders"

\* lines 277-294: the leader's own Sender URI, else the built descriptor
QueryLeaderSender ==
  /\ pc = "leader"
  /\ \E resp \in LeaderResps :
       /\ candidate_uris' = LeaderCandidates(resp, Udn, leader_name, leader_room)
       /\ inLeader' = resp
       /\ pc' = AfterLeaderQuery(resp)
  /\ UNCHANGED << r, all_ok, recvPresent, leader_room, leader_name, ohz_uri, sq,
                  loopVars, joined, grouped, rUri, startKind, sent, readFailed,
                  inSenders, gvars, otherVars >>

\* the Senders loop running on after the sixth attempt
SendersLoopEndsNever(found, made) == found

\* line 336 dropped: the Senders loop always makes its six attempts
SendersLoopEndsWhenUsedUp(found, made) == made = SendersAttempts

\* lines 313, 335-336: the Senders loop ends when an ohz URI was found or
\* the attempts are used up
SendersLoopEnds(found, made) == found \/ made = SendersAttempts

\* lines 313-339: one iteration of the Senders loop
SendersAttempt ==
  /\ pc = "senders"
  /\ \E resp \in SendersResps :
       /\ ohz_uri' = SendersAttemptResult(resp, leader_room, leader_name)
       /\ inSenders' = resp
  /\ sq' = sq + 1
  /\ pc' = IF SendersLoopEnds(Truthy(ohz_uri'), sq') THEN "build" ELSE "senders"
  /\ UNCHANGED << r, all_ok, recvPresent, leader_room, leader_name, candidate_uris,
                  loopVars, joined, grouped, rUri, startKind, sent, readFailed,
                  inLeader, gvars, otherVars >>

\* lines 340-348: the preferred URI goes first and the loop takes the first
\* candidate
BuildCandidates ==
  /\ pc = "build"
  /\ candidate_uris' = InsertPreferred(candidate_uris, ohz_uri, Udn)
  /\ IF candidate_uris' = <<>>
     THEN pc' = "lastSet" /\ ci' = 0
     ELSE pc' = "stop" /\ ci' = 1
  /\ UNCHANGED << r, all_ok, recvPresent, leader_room, leader_name, ohz_uri, sq,
                  pi, ok, state, grouped_now, joined, grouped, rUri, histVars,
                  gvars, otherVars >>

\* the for statement of line 348 taking the next candidate, or ending; the
\* counter of the poll loop is not read after the loop
NextCandidate ==
  IF ci < Len(candidate_uris)
  THEN ci' = ci + 1 /\ pc' = "stop" /\ pi' = pi
  ELSE ci' = ci /\ pc' = "lastSet" /\ pi' = 0

\* line 409 dropped: the loop goes on after a candidate was accepted
AfterPollsNoBreak(accepted) == NextCandidate

\* lines 409-410: leave the candidate loop when a candidate was accepted
AfterPolls(accepted) ==
  IF accepted THEN ci' = ci /\ pc' = "lastSet" /\ pi' = 0 ELSE NextCandidate

\* lines 350-354: Stop, whose failure is swallowed.  The locals of the
\* resolution are not read in the candidate loop (the metadata was made at
\* lines 296-309): they leave the state here.
CandStop ==
  /\ pc = "stop"
  /\ sent' = sent \cup {"Stop"}
  /\ pi' = 0
  /\ pc' = IF IsOhzCand(cand) THEN "soapSet" ELSE "descSet"
  /\ leader_room' = None
  /\ leader_name' = None
  /\ ohz_uri' = None
  /\ sq' = 0
  /\ inLeader' = NoLeaderResp
  /\ inSenders' = NoSendersResp
  /\ UNCHANGED << r, all_ok, recvPresent, candidate_uris, ci, ok, state,
                  grouped_now, joined, grouped, rUri, startKind, readFailed,
                  gvars, otherVars >>

\* SetSender held back for a follower whose sender URI is already an ohz one
SetSenderSkipsGrouped(uri) ==
  IF Truthy(rUri) /\ UrlScheme(rUri) = sOhz
  THEN UNCHANGED << sent, rUri >>
  ELSE /\ sent' = sent \cup {"SetSender"}
       /\ rUri' \in {rUri, uri}

\* a SetSender of uri reaching the follower: it takes the URI or it does not
SetSenderTo(uri) ==
  /\ sent' = sent \cup {"SetSender"}
  /\ rUri' \in {rUri, uri}

\* a Play reaching the follower
PlaySent ==
  /\ sent' = sent \cup {"Play"}
  /\ UNCHANGED rUri

CmdFrame ==
  UNCHANGED << r, all_ok, recvPresent, resolveVars, ok, state, grouped_now,
               joined, grouped, startKind, readFailed, inLeader, inSenders,
               gvars, otherVars >>

\* lines 356-364: SetSender by raw SOAP; an exception leads to the API
SoapSetSender ==
  /\ pc = "soapSet"
  /\ SetSenderTo(cand)
  /\ \E raised \in BOOLEAN : pc' = IF raised THEN "apiSet" ELSE "soapPlay"
  /\ UNCHANGED << ci, pi >>
  /\ CmdFrame

\* lines 365-376: Play by raw SOAP; an exception leads to the API
SoapPlay ==
  /\ pc = "soapPlay"
  /\ PlaySent
  /\ \E raised \in BOOLEAN : pc' = IF raised THEN "apiSet" ELSE "poll"
  /\ UNCHANGED << ci, pi >>
  /\ CmdFrame

\* lines 378-382: SetSender through the API; an exception is swallowed
ApiSetSender ==
  /\ pc = "apiSet"
  /\ SetSenderTo(cand)
  /\ \E raised \in BOOLEAN : pc' = IF raised THEN "poll" ELSE "apiPlay"
  /\ UNCHANGED << ci, pi >>
  /\ CmdFrame

\* lines 380-382: Play through the API; an exception is swallowed
ApiPlay ==
  /\ pc = "apiPlay"
  /\ PlaySent
  /\ pc' = "poll"
  /\ UNCHANGED << ci, pi >>
  /\ CmdFrame

\* lines 385-388: the descriptor path, SetSender with the metadata
DescSetSender ==
  /\ pc = "descSet"
  /\ SetSenderTo(cand)
  /\ \E raised \in BOOLEAN : pc' = IF raised THEN "descSetEmpty" ELSE "descPlay"
  /\ UNCHANGED << ci, pi >>
  /\ CmdFrame

\* the except of lines 411-412 dropped: the exception reaches the outer
\* except of line 445 and the join returns False
CandidateRaisedAborts == ci' = ci /\ pi' = pi /\ pc' = "verify"

\* lines 411-412: an exception inside a candidate's attempt goes on to the
\* next candidate (continue)
CandidateRaised == NextCandidate

\* lines 388-389, 411-412: SetSender with empty metadata; an exception leaves
\* the candidate (continue)
DescSetSenderEmpty ==
  /\ pc = "descSetEmpty"
  /\ SetSenderTo(cand)
  /\ \E raised \in BOOLEAN :
       IF raised THEN CandidateRaised ELSE ci' = ci /\ pi' = pi /\ pc' = "descPlay"
  /\ CmdFrame

\* lines 390-393: Play, whose failure is swallowed
DescPlay ==
  /\ pc = "descPlay"
  /\ PlaySent
  /\ pc' = "poll"
  /\ UNCHANGED << ci, pi >>
  /\ CmdFrame

\* the poll loop running on after the eighth poll
PollsUsedUpNever(made) == FALSE

\* line 395: the polls of a candidate are used up
PollsUsedUp(made) == made = PollAttempts

\* lines 395-410: one iteration of the poll loop: the sleep, the
\* TransportState query (an exception ends the polls of the candidate),
\* _is_grouped with its own two queries, and the acceptance test
Poll ==
  /\ pc = "poll"
  /\ \E ts \in TsReads :
       IF ts.raised
       THEN /\ readFailed' = (readFailed \/ ci = 1)
            /\ AfterPolls(ok)
            /\ UNCHANGED << ok, state, grouped_now >>
       ELSE /\ state' = Lower(Or(Or(ts.TransportState, ts.state), <<>>))
            /\ \E sres \in SenderReads, ts2 \in TsReads :
                 /\ grouped_now' = IsGroupedRule(TRUE, sres, ts2)
                 /\ readFailed' = (readFailed \/ (ci = 1 /\ (sres.raised \/ ts2.raised)))
            /\ IF Accepts(cand, state', grouped_now')
               THEN /\ ok' = TRUE
                    /\ AfterPolls(TRUE)
               ELSE /\ ok' = ok
                    /\ IF PollsUsedUp(pi + 1)
                       THEN AfterPolls(ok)
                       ELSE ci' = ci /\ pi' = pi + 1 /\ pc' = "poll"
  /\ UNCHANGED << r, all_ok, recvPresent, resolveVars, joined, grouped, rUri,
                  startKind, sent, inLeader, inSenders, gvars, otherVars >>

\* lines 420-430, 442-444: the SOAP fallback's SetSender of the default ohz
\* URI; an exception skips its Play and the join returns True
LastResortSetSender ==
  /\ pc = "lastSet"
  /\ SetSenderTo(DefaultOhz(Udn))
  /\ \E raised \in BOOLEAN :
       IF raised THEN joined' = TRUE /\ pc' = "verify"
                 ELSE joined' = joined /\ pc' = "lastPlay"
  /\ UNCHANGED << r, all_ok, recvPresent, resolveVars, loopVars, grouped,
                  startKind, readFailed, inLeader, inSenders, gvars, otherVars >>

\* lines 431-444: the SOAP fallback's Play, then return True
LastResortPlay ==
  /\ pc = "lastPlay"
  /\ PlaySent
  /\ joined' = TRUE
  /\ pc' = "verify"
  /\ UNCHANGED << r, all_ok, recvPresent, resolveVars, loopVars, grouped,
                  startKind, readFailed, inLeader, inSenders, gvars, otherVars >>

\* lines 513-519: the verification: grouped = _is_grouped(sdev)
Verify ==
  /\ pc = "verify"
  /\ \E sres \in SenderReads, ts \in TsReads :
       grouped' = IsGroupedRule(recvPresent, sres, ts)
  /\ all_ok' = (all_ok /\ grouped')
  /\ pc' = "report"
  /\ UNCHANGED << r, recvPresent, resolveVars, loopVars, joined, rUri,
                  histVars, gvars, otherVars >>

\* the next follower taken up while the polls of this one are still running
NextFollowerEarly ==
  /\ pc \in {"poll", "report"}
  /\ Advance
  /\ UNCHANGED << all_ok, gvars, otherVars >>

\* line 479: on to the next follower
NextFollower ==
  /\ pc = "report"
  /\ Advance
  /\ UNCHANGED << all_ok, gvars, otherVars >>

Next ==
  \/ InitFollower
  \/ WakeFollower
  \/ JoinStart
  \/ QueryLeaderSender
  \/ SendersAttempt
  \/ BuildCandidates
  \/ CandStop
  \/ SoapSetSender
  \/ SoapPlay
  \/ ApiSetSender
  \/ ApiPlay
  \/ DescSetSender
  \/ DescSetSenderEmpty
  \/ DescPlay
  \/ Poll
  \/ LastResortSetSender
  \/ LastResortPlay
  \/ Verify
  \/ NextFollower

Spec == Init /\ [][Next]_vars

(***************************************************************************)
(* _is_grouped taken alone: one call on each combination of answers.  Each *)
(* answer carries what it is a case of: the scheme class of the sender URI *)
(* and whether the transport state is one of the three active states.      *)
(***************************************************************************)
SenderCase(sres, cls) == [sres |-> sres, cls |-> cls]

TsCase(ts, active) == [ts |-> ts, active |-> active]

GSenderCases ==
  { SenderCase(SenderResp(FALSE, OhzA, None), "ohz"),
    SenderCase(SenderResp(FALSE, OhzUpper, None), "ohz"),
    SenderCase(SenderResp(FALSE, None, DefaultOhz(Udn)), "ohz"),
    SenderCase(SenderResp(FALSE, <<>>, <<"O","h","Z",":","x">>), "ohz"),
    SenderCase(SenderResp(FALSE, BuildSenderUri(Udn, NameN, RoomK), None), "descriptor"),
    SenderCase(SenderResp(FALSE, sSongcastPrefix \o Udn, OhzA), "descriptor"),
    SenderCase(SenderResp(FALSE, HttpUri, None), "unknown"),
    SenderCase(SenderResp(FALSE, <<"o","h","z","x",":","/","/","a">>, None), "unknown"),
    SenderCase(SenderResp(FALSE, <<"o","h","z">>, None), "unknown"),
    SenderCase(SenderResp(FALSE, <<>>, None), "unknown"),
    SenderCase(SenderResp(FALSE, None, None), "unknown"),
    SenderCase(SenderResp(TRUE, None, None), "unknown") }

GTsCases ==
  { TsCase(TsResp(FALSE, sDevPlaying, None), TRUE),
    TsCase(TsResp(FALSE, sDevBuffering, None), TRUE),
    TsCase(TsResp(FALSE, None, sConnecting), TRUE),
    TsCase(TsResp(FALSE, <<>>, <<"P","L","A","Y","I","N","G">>), TRUE),
    TsCase(TsResp(FALSE, <<"C","o","n","n","e","c","t","i","n","g">>, sStopped), TRUE),
    TsCase(TsResp(FALSE, sStopped, None), FALSE),
    TsCase(TsResp(FALSE, sStopped, sPlaying), FALSE),
    TsCase(TsResp(FALSE, <<"i","d","l","e">>, None), FALSE),
    TsCase(TsResp(FALSE, <<"P","l","a","y">>, None), FALSE),
    TsCase(TsResp(FALSE, <<>>, None), FALSE),
    TsCase(TsResp(FALSE, None, None), FALSE),
    TsCase(TsResp(TRUE, None, None), FALSE) }

GQuery(recv, sc, tc) ==
  [recv |-> recv, sres |-> sc.sres, cls |-> sc.cls, ts |-> tc.ts, active |-> tc.active]

\* a device with a Receiver service answers in any of the ways above; one
\* without it has no sender URI and no transport state to report
GQueries ==
  { GQuery(TRUE, sc, tc) : sc \in GSenderCases, tc \in GTsCases } \cup { NoGq }

InitIsGrouped ==
  /\ pc = "idle"
  /\ r = 1
  /\ all_ok = TRUE
  /\ recvPresent = FALSE
  /\ leader_room = None
  /\ leader_name = None
  /\ candidate_uris = <<>>
  /\ ohz_uri = None
  /\ sq = 0
  /\ ci = 0
  /\ pi = 0
  /\ ok = FALSE
  /\ state = None
  /\ grouped_now = FALSE
  /\ joined = FALSE
  /\ grouped = FALSE
  /\ rUri = <<>>
  /\ startKind = "none"
  /\ sent = {}
  /\ readFailed = FALSE
  /\ inLeader = NoLeaderResp
  /\ inSenders = NoSendersResp
  /\ gq \in GQueries
  /\ gdone = FALSE
  /\ gres = FALSE
  /\ OthersIdle

\* lines 240-260: one call of _is_grouped
CallIsGrouped ==
  /\ ~gdone
  /\ gdone' = TRUE
  /\ gres' = IsGroupedRule(gq.recv, gq.sres, gq.ts)
  /\ UNCHANGED << pc, r, all_ok, recvPresent, resolveVars, loopVars, joined,
                  grouped, rUri, histVars, gq, otherVars >>

NextIsGrouped == CallIsGrouped

SpecIsGrouped == InitIsGrouped /\ [][NextIsGrouped]_vars

(***************************************************************************)
(* The whole run: main() and create_songcast_group_async, with each        *)
(* follower's configuration (initialisation, wake, source selection, join, *)
(* verification) taken as one step whose outcome is what the run records.  *)
(***************************************************************************)
\* the largest number of followers configured
MaxSlaves == 3

\* what became of one follower: whether _init_dev returned, what
\* _receiver_join returned, what the verification by _is_grouped returned
Outcome(init, j, g) == [init |-> init, joined |-> j, grouped |-> g]

\* all_ok after a verification that says only whether the last follower is grouped
AllOkLastOnly(a, g) == g

\* lines 514-519: all_ok after a follower's verification
AllOkAfterVerify(a, g) == IF g THEN a ELSE FALSE

\* the join variables of a run whose joins are taken as one step
JoinAbstract ==
  /\ r = 0
  /\ all_ok = FALSE
  /\ recvPresent = FALSE
  /\ leader_room = None
  /\ leader_name = None
  /\ candidate_uris = <<>>
  /\ ohz_uri = None
  /\ sq = 0
  /\ ci = 0
  /\ pi = 0
  /\ ok = FALSE
  /\ state = None
  /\ grouped_now = FALSE
  /\ joined = FALSE
  /\ grouped = FALSE
  /\ rUri = <<>>
  /\ startKind = "none"
  /\ sent = {}
  /\ readFailed = FALSE
  /\ inLeader = NoLeaderResp
  /\ inSenders = NoSendersResp
  /\ gq = NoGq
  /\ gdone = FALSE
  /\ gres = FALSE

\* main() has parsed its arguments and the .env file: any number of
\* followers, none included, with or without a resolved master
InitRun ==
  /\ pc = "main"
  /\ JoinAbstract
  /\ nslaves \in 0..MaxSlaves
  /\ masterGiven \in BOOLEAN
  /\ success = FALSE
  /\ exit_code = NoExit
  /\ outcomes = <<>>
  /\ MonIdle
  /\ CfgIdle
  /\ PrepIdle
  /\ ConnIdle
  /\ RestIdle

runFrame ==
  << leader_room, leader_name, candidate_uris, ohz_uri, sq, ci, pi, ok, state,
     grouped_now, rUri, histVars, gvars, monVars, cfgVars, prepVars, connVars, restVars >>

\* lines 568-574: main() validates the master and builds the grouper
MainValidate ==
  /\ pc = "main"
  /\ IF ~masterGiven
     THEN pc' = "exited" /\ exit_code' = 2
     ELSE pc' = "create" /\ exit_code' = exit_code
  /\ UNCHANGED << r, all_ok, recvPresent, joined, grouped, nslaves, masterGiven,
                  success, outcomes, runFrame >>

\* lines 449-478: no followers, or the leader's initialisation raising, ends
\* the run with False; the name resolution, the wake and the optional switch
\* of the leader swallow their failures
CreateStart ==
  /\ pc = "create"
  /\ \E leaderInit \in BOOLEAN :
       IF nslaves = 0 \/ ~leaderInit
       THEN /\ success' = FALSE
            /\ pc' = "return"
            /\ UNCHANGED << r, all_ok >>
       ELSE /\ all_ok' = TRUE
            /\ r' = 1
            /\ pc' = "follower"
            /\ success' = success
  /\ UNCHANGED << recvPresent, joined, grouped, nslaves, masterGiven,
                  exit_code, outcomes, runFrame >>

\* lines 479-519: one iteration of the loop over self.slaves.  A follower
\* whose initialisation raises clears all_ok and is left; otherwise the join
\* returns False when the follower has no Receiver service and True when it
\* has one, and the verification reads the follower once more.
ConfigureFollower ==
  /\ pc = "follower"
  /\ r <= nslaves
  /\ \E init \in BOOLEAN, q \in GQueries :
       IF ~init
       THEN /\ all_ok' = FALSE
            /\ outcomes' = Append(outcomes, Outcome(FALSE, FALSE, FALSE))
            /\ UNCHANGED << recvPresent, joined, grouped >>
       ELSE /\ recvPresent' = q.recv
            /\ joined' = q.recv
            /\ grouped' = IsGroupedRule(q.recv, q.sres, q.ts)
            /\ all_ok' = AllOkAfterVerify(all_ok, grouped')
            /\ outcomes' = Append(outcomes, Outcome(TRUE, joined', grouped'))
  /\ r' = r + 1
  /\ UNCHANGED << pc, nslaves, masterGiven, success, exit_code, runFrame >>

\* lines 521-528: after the last follower the run returns all_ok
CreateReturn ==
  /\ pc = "follower"
  /\ r > nslaves
  /\ success' = all_ok
  /\ pc' = "return"
  /\ UNCHANGED << r, all_ok, recvPresent, joined, grouped, nslaves, masterGiven,
                  exit_code, outcomes, runFrame >>

\* line 576: sys.exit(0 if success else 1)
MainExit ==
  /\ pc = "return"
  /\ exit_code' = (IF success THEN 0 ELSE 1)
  /\ pc' = "exited"
  /\ UNCHANGED << r, all_ok, recvPresent, joined, grouped, nslaves, masterGiven,
                  success, outcomes, runFrame >>

NextRun ==
  \/ MainValidate
  \/ CreateStart
  \/ ConfigureFollower
  \/ CreateReturn
  \/ MainExit

SpecRun == InitRun /\ [][NextRun]_vars

(***************************************************************************)
(* The event monitor (tests/songcast_monitor.py): StateAssertion           *)
(***************************************************************************)
\* the largest value of the clock
MaxTime == 3

\* a time that is not set: start_time and met_time are None until set, and
\* the code only ever tests them for truth, which None and 0 fail alike
NoTime == 0

TimeSet(t) == t # NoTime

sTransportState == <<"T","r","a","n","s","p","o","r","t","S","t","a","t","e">>
sSender == <<"S","e","n","d","e","r">>
sStatus == <<"S","t","a","t","u","s">>
sProtocolInfo == <<"P","r","o","t","o","c","o","l","I","n","f","o">>
vYes == <<"Y","e","s">>

\* StateAssertion.__init__
StateAssertion(device_id, variable, expected_value, within_seconds) ==
  [device_id |-> device_id, variable |-> variable,
   expected_value |-> expected_value, within_seconds |-> within_seconds,
   start_time |-> NoTime, met |-> FALSE, met_time |-> NoTime,
   actual_value |-> None]

\* StateAssertion.start at time t
start(self, t) == [self EXCEPT !.start_time = t]

\* check without the comparison of the device id
checkAnyDevice(self, device_id, variable, value, t) ==
  IF self.met THEN [self |-> self, ret |-> FALSE]
  ELSE IF variable = self.variable /\ value = self.expected_value
       THEN [self |-> [self EXCEPT !.met = TRUE, !.met_time = t, !.actual_value = value],
             ret |-> TRUE]
       ELSE [self |-> self, ret |-> FALSE]

\* check without the early return of a met assertion
checkNoGuard(self, device_id, variable, value, t) ==
  IF /\ device_id = self.device_id
     /\ variable = self.variable
     /\ value = self.expected_value
  THEN [self |-> [self EXCEPT !.met = TRUE, !.met_time = t, !.actual_value = value],
        ret |-> TRUE]
  ELSE [self |-> self, ret |-> FALSE]

\* StateAssertion.check at time t: the assertion afterwards and what is returned
check(self, device_id, variable, value, t) ==
  IF self.met THEN [self |-> self, ret |-> FALSE]
  ELSE IF /\ device_id = self.device_id
          /\ variable = self.variable
          /\ value = self.expected_value
       THEN [self |-> [self EXCEPT !.met = TRUE, !.met_time = t, !.actual_value = value],
             ret |-> TRUE]
       ELSE [self |-> self, ret |-> FALSE]

\* is_expired with the `not` of line 82 dropped: a started assertion never
\* expires
is_expiredUnstarted(self, t) ==
  IF TimeSet(self.start_time) \/ self.met THEN FALSE
  ELSE (t - self.start_time) > self.within_seconds

\* StateAssertion.is_expired at time t
is_expired(self, t) ==
  IF ~TimeSet(self.start_time) \/ self.met THEN FALSE
  ELSE (t - self.start_time) > self.within_seconds

\* StateAssertion.elapsed_time: some is FALSE when None is returned
elapsed_time(self) ==
  IF self.met /\ TimeSet(self.start_time) /\ TimeSet(self.met_time)
  THEN [some |-> TRUE, val |-> self.met_time - self.start_time]
  ELSE [some |-> FALSE, val |-> 0]

\* StateAssertion.status_string at time t: formatting None with :.2f raises
status_string(self, t) ==
  IF self.met
  THEN IF elapsed_time(self).some THEN [raised |-> FALSE, text |-> "PASS"]
       ELSE [raised |-> TRUE, text |-> ""]
  ELSE IF is_expired(self, t) THEN [raised |-> FALSE, text |-> "FAIL"]
       ELSE [raised |-> FALSE, text |-> "PENDING"]

\* the assertions of the test file of the model
AssertTransport == StateAssertion("D1", sTransportState, sDevPlaying, 1)
AssertStatus == StateAssertion("D1", sStatus, vYes, 2)

(***************************************************************************)
(* StateAssertion.check taken alone: one call on an assertion in any of    *)
(* the states it can be in (started or not, met or not) with any           *)
(* notification.                                                           *)
(***************************************************************************)
Notification(device_id, variable, value) ==
  [device_id |-> device_id, variable |-> variable, value |-> value]

CheckNotes ==
  { Notification(d, v, x) : d \in {"D1", "D2"},
                            v \in {sTransportState, sStatus, sSender},
                            x \in {sDevPlaying, sStopped, vYes} }

CheckAssertions ==
  LET unmet == { start(b, t) : b \in {AssertTransport, AssertStatus}, t \in 0..MaxTime }
  IN unmet \cup
     { [u EXCEPT !.met = TRUE, !.met_time = t, !.actual_value = u.expected_value] :
         u \in unmet, t \in 1..MaxTime }

\* the variables of the monitor that a call taken alone does not use
MonUnused ==
  /\ mpc = "idle"
  /\ tpc = "none"
  /\ running = FALSE
  /\ sock = None
  /\ sockOpen = FALSE
  /\ test_mode = FALSE
  /\ started = 0
  /\ exitCause = "none"

monUnused == << mpc, tpc, running, sock, sockOpen, test_mode, started, exitCause >>

joinVars ==
  << pc, r, all_ok, recvPresent, resolveVars, loopVars, joined, grouped, rUri,
     histVars, gvars >>

InitCheck ==
  /\ pc = "idle"
  /\ JoinAbstract
  /\ RunIdle
  /\ CfgIdle
  /\ PrepIdle
  /\ ConnIdle
  /\ RestIdle
  /\ MonUnused
  /\ mon_state = None
  /\ line = None
  /\ notes = <<>>
  /\ \E self \in CheckAssertions : assertions = <<self>> /\ before = self
  /\ now \in 1..MaxTime
  /\ note \in CheckNotes
  /\ ret = FALSE
  /\ done = FALSE

\* lines 68-78: one call of check
CallCheck ==
  /\ ~done
  /\ LET res == check(assertions[1], note.device_id, note.variable, note.value, now)
     IN /\ assertions' = <<res.self>>
        /\ ret' = res.ret
  /\ done' = TRUE
  /\ UNCHANGED << joinVars, runVars, cfgVars, prepVars, connVars, restVars, monUnused, mon_state, line,
                  notes, now, note, before >>

NextCheck == CallCheck

SpecCheck == InitCheck /\ [][NextCheck]_vars

(***************************************************************************)
(* The event monitor: DeviceMonitor._process_event                         *)
(***************************************************************************)
sEVENT == <<"E","V","E","N","T">>

\* what \s matches in the lines of the model
SpaceChars == {" ", "\t"}

Quote == "\""

\* the end of the longest run of characters of C that starts at s[i]: the
\* index after it (i itself when s[i] is not in C)
SpanEnd(s, i, C) ==
  CHOOSE j \in i..(Len(s) + 1) :
    /\ \A k \in i..(j - 1) : s[k] \in C
    /\ j = Len(s) + 1 \/ s[j] \notin C

\* re.match(r'^EVENT\s+(\d+)\s+(.+)$', line): the greedy runs of spaces,
\* digits and spaces after the word, then at least one character up to the
\* end (given back by the last run of spaces when nothing follows it)
EventMatch(text) ==
  LET a == Len(sEVENT) + 1
      b == SpanEnd(text, a, SpaceChars)
      c == SpanEnd(text, b, Digits)
      d == SpanEnd(text, c, SpaceChars)
      no == [ok |-> FALSE, seq |-> <<>>, rest |-> <<>>]
  IN IF ~StartsWith(text, sEVENT) THEN no
     ELSE IF b = a \/ c = b \/ d = c THEN no
     ELSE IF d <= Len(text)
          THEN [ok |-> TRUE, seq |-> SubSeq(text, b, c - 1),
                rest |-> SubSeq(text, d, Len(text))]
          ELSE IF d - c >= 2
               THEN [ok |-> TRUE, seq |-> SubSeq(text, b, c - 1),
                     rest |-> SubSeq(text, Len(text), Len(text))]
               ELSE no

\* whether NAME\s+"([^"]*)" matches s from index i on
VarMatchesAt(name, s, i) ==
  LET j == i + Len(name)
      k == SpanEnd(s, j, SpaceChars)
  IN /\ j - 1 <= Len(s)
     /\ SubSeq(s, i, j - 1) = name
     /\ k > j
     /\ k <= Len(s)
     /\ s[k] = Quote
     /\ \E q \in (k + 1)..Len(s) : s[q] = Quote

\* group 1 of that match: the text between the quote and the next quote
VarValueAt(name, s, i) ==
  LET k == SpanEnd(s, i + Len(name), SpaceChars)
      q == CHOOSE q \in (k + 1)..Len(s) :
             s[q] = Quote /\ \A p \in (k + 1)..(q - 1) : s[p] # Quote
  IN SubSeq(s, k + 1, q - 1)

\* re.search(r'NAME\s+"([^"]*)"', s): group 1 of the leftmost match, None
\* when there is no match
SearchVar(name, s) ==
  IF \E i \in 1..Len(s) : VarMatchesAt(name, s, i)
  THEN VarValueAt(name, s,
         CHOOSE i \in 1..Len(s) :
           VarMatchesAt(name, s, i) /\ \A h \in 1..(i - 1) : ~VarMatchesAt(name, s, h))
  ELSE None

\* the variables _process_event looks for, in the order it does
RecognizedVars == << sTransportState, sSender, sStatus, sProtocolInfo >>

\* self.state = {}: no variable has an entry
EmptyState == [v \in Range(RecognizedVars) |-> None]

Change(variable, old, new) == [variable |-> variable, old |-> old, new |-> new]

\* changes with an entry for every variable found, changed or not
ChangesOfAll(rest, st) ==
  LET found == SelectSeq(RecognizedVars, LAMBDA v : SearchVar(v, rest) # None)
  IN [i \in 1..Len(found) |-> Change(found[i], st[found[i]], SearchVar(found[i], rest))]

\* lines 327-364: the dict `changes`, in insertion order: an entry for each
\* variable found in rest whose value differs from the entry of self.state
ChangesOf(rest, st) ==
  LET differs(v) == SearchVar(v, rest) # None /\ SearchVar(v, rest) # st[v]
      found == SelectSeq(RecognizedVars, differs)
  IN [i \in 1..Len(found) |-> Change(found[i], st[found[i]], SearchVar(found[i], rest))]

\* self.state rebuilt from the event alone: a variable the line lacks or
\* repeats loses its entry
StateAfterReplaces(chs, st) ==
  [v \in Range(RecognizedVars) |->
     IF \E i \in 1..Len(chs) : chs[i].variable = v
     THEN (CHOOSE c \in Range(chs) : c.variable = v).new
     ELSE None]

\* self.state after those assignments
StateAfter(chs, st) ==
  [v \in Range(RecognizedVars) |->
     IF \E i \in 1..Len(chs) : chs[i].variable = v
     THEN (CHOOSE c \in Range(chs) : c.variable = v).new
     ELSE st[v]]

\* lines 379-382 for one change: check is called on the monitor's assertions
\* in order (those of the test whose device is the monitor's, lines 595-596);
\* an assertion that becomes met has its elapsed time formatted with :.2f,
\* which raises when elapsed_time returns None
RECURSIVE CheckAssertionsFrom(_, _, _, _, _)
CheckAssertionsFrom(as, i, device_id, ch, t) ==
  IF i > Len(as) THEN [assertions |-> as, raised |-> FALSE]
  ELSE IF as[i].device_id # device_id
       THEN CheckAssertionsFrom(as, i + 1, device_id, ch, t)
       ELSE LET res == check(as[i], device_id, ch.variable, ch.new, t)
                as2 == [as EXCEPT ![i] = res.self]
            IN IF res.ret /\ ~elapsed_time(res.self).some
               THEN [assertions |-> as2, raised |-> TRUE]
               ELSE CheckAssertionsFrom(as2, i + 1, device_id, ch, t)

\* lines 367-382: the loop over the changes
RECURSIVE DisplayChanges(_, _, _, _)
DisplayChanges(chs, as, device_id, t) ==
  IF chs = <<>> THEN [assertions |-> as, raised |-> FALSE]
  ELSE LET res == CheckAssertionsFrom(as, 1, device_id, Head(chs), t)
       IN IF res.raised THEN res
          ELSE DisplayChanges(Tail(chs), res.assertions, device_id, t)

\* _process_event(line) of the monitor of device_id at time t, self.state
\* being st and the assertions of the test as: what they are afterwards, the
\* changes made and whether the call raised
ProcessEvent(text, st, as, device_id, t) ==
  LET m == EventMatch(text) IN
    IF ~m.ok
    THEN [state |-> st, assertions |-> as, changes |-> <<>>, raised |-> FALSE]
    ELSE LET chs == ChangesOf(m.rest, st)
             res == DisplayChanges(chs, as, device_id, t)
         IN [state |-> StateAfter(chs, st), assertions |-> res.assertions,
             changes |-> chs, raised |-> res.raised]

(***************************************************************************)
(* _process_event taken alone: one call on each line below with each       *)
(* snapshot.  Each line carries what a reader of the protocol sees in it:  *)
(* the value of each recognized variable it holds, None for one it lacks.  *)
(***************************************************************************)
vNo == <<"N","o">>
vPi == <<"x">>

EventCase(text, ts, sender, status, pinfo) ==
  [text |-> text, carries |-> << ts, sender, status, pinfo >>]

EventCases ==
  { EventCase(<<"E","V","E","N","T"," ","3"," ","T","r","a","n","s","p","o","r","t","S","t","a","t","e"," ","\"","P","l","a","y","i","n","g","\""," ","S","t","a","t","u","s"," ","\"","Y","e","s","\"">>, sDevPlaying, None, vYes, None),
    EventCase(<<"E","V","E","N","T"," ","4"," ","T","r","a","n","s","p","o","r","t","S","t","a","t","e"," ","\"","S","t","o","p","p","e","d","\"">>, sStopped, None, None, None),
    EventCase(<<"E","V","E","N","T"," ","5"," ","S","e","n","d","e","r"," ","\"","o","h","z",":","/","/","a","\""," ","P","r","o","t","o","c","o","l","I","n","f","o"," ","\"","x","\"">>, None, OhzA, None, vPi),
    EventCase(<<"E","V","E","N","T"," ","1","2"," "," ","S","t","a","t","u","s"," "," "," ","\"","N","o","\"">>, None, None, vNo, None),
    EventCase(<<"E","V","E","N","T"," ","6"," ","S","t","a","t","u","s"," ","\"","Y","e","s","\""," ","T","r","a","n","s","p","o","r","t","S","t","a","t","e"," ","\"","S","t","o","p","p","e","d","\"">>, sStopped, None, vYes, None),
    EventCase(<<"E","V","E","N","T"," ","7"," ","T","r","a","n","s","p","o","r","t","S","t","a","t","e"," ","\"","\"">>, <<>>, None, None, None),
    EventCase(<<"E","V","E","N","T"," ","8"," ","M","e","t","a","d","a","t","a"," ","\"","m","\""," ","U","r","i"," ","\"","u","\"">>, None, None, None, None),
    EventCase(<<"E","V","E","N","T"," ","9"," ","T","r","a","n","s","p","o","r","t","S","t","a","t","e"," ","P","l","a","y","i","n","g">>, None, None, None, None),
    EventCase(<<"E","V","E","N","T"," ","x"," ","T","r","a","n","s","p","o","r","t","S","t","a","t","e"," ","\"","P","l","a","y","i","n","g","\"">>, None, None, None, None),
    EventCase(<<"E","V","E","N","T"," ","1","0">>, None, None, None, None),
    EventCase(<<"E","V","E","N","T">>, None, None, None, None) }

\* what the line of that text carries for the i-th recognized variable
Carried(text, i) == (CHOOSE c \in EventCases : c.text = text).carries[i]

Snapshots ==
  { [v \in Range(RecognizedVars) |->
       IF v = sTransportState THEN ts
       ELSE IF v = sSender THEN sn
       ELSE IF v = sStatus THEN su
       ELSE None] :
      ts \in {None, sDevPlaying, sStopped}, sn \in {None, OhzA}, su \in {None, vYes} }

InitEvent ==
  /\ pc = "idle"
  /\ JoinAbstract
  /\ RunIdle
  /\ CfgIdle
  /\ PrepIdle
  /\ ConnIdle
  /\ RestIdle
  /\ MonUnused
  /\ mon_state \in Snapshots
  /\ before = mon_state
  /\ \E c \in EventCases : line = c.text
  /\ notes = <<>>
  /\ assertions \in { <<>>, << start(AssertTransport, 1), start(AssertStatus, 1) >> }
  /\ now = 1
  /\ note = None
  /\ ret = FALSE
  /\ done = FALSE

\* lines 312-386: one call of _process_event
CallProcessEvent ==
  /\ ~done
  /\ LET res == ProcessEvent(line, mon_state, assertions, "D1", now)
     IN /\ mon_state' = res.state
        /\ assertions' = res.assertions
        /\ notes' = res.changes
        /\ ret' = res.raised
  /\ done' = TRUE
  /\ UNCHANGED << joinVars, runVars, cfgVars, prepVars, connVars, restVars, monUnused, line, now, note, before >>

NextEvent == CallProcessEvent

SpecEvent == InitEvent /\ [][NextEvent]_vars

(***************************************************************************)
(* The event monitor: main(), DeviceMonitor.start/stop/close and the       *)
(* thread running DeviceMonitor.listen, for one device.  The main thread   *)
(* and the listening thread take their steps in any order.                 *)
(***************************************************************************)
\* the id of the device the monitor is for
MonDevice == "D1"

\* the socket object connect() creates
Socket == <<"socket">>

\* the complete lines the device may send while the monitor listens
MonLines ==
  { <<"E","V","E","N","T"," ","3"," ","T","r","a","n","s","p","o","r","t","S","t","a","t","e"," ","\"","P","l","a","y","i","n","g","\""," ","S","t","a","t","u","s"," ","\"","Y","e","s","\"">>,
    <<"E","V","E","N","T"," ","4"," ","T","r","a","n","s","p","o","r","t","S","t","a","t","e"," ","\"","S","t","o","p","p","e","d","\"">>,
    <<"E","V","E","N","T"," ","8"," ","M","e","t","a","d","a","t","a"," ","\"","m","\""," ","U","r","i"," ","\"","u","\"">>,
    <<"E","V","E","N","T"," ","x"," ","T","r","a","n","s","p","o","r","t","S","t","a","t","e"," ","\"","P","l","a","y","i","n","g","\"">>,
    <<"A","L","I","V","E"," ","D","s">> }

\* what the device answers to SUBSCRIBE within the 3 seconds of subscribe():
\* the lines of the buffer (none: nothing was received)
SubscribeBuffers ==
  { <<>>,
    << <<"S","U","B","S","C","R","I","B","E"," ","1">> >>,
    << <<"S","U","B","S","C","R","I","B","E"," ","1">>, <<"E","V","E","N","T"," ","0"," ","T","r","a","n","s","p","o","r","t","S","t","a","t","e"," ","\"","S","t","o","p","p","e","d","\"">> >>,
    << <<"S","U","B","S","C","R","I","B","E"," ","1">>, <<"E","V","E","N","T"," ","0"," ","T","r","a","n","s","p","o","r","t","S","t","a","t","e"," ","\"","P","l","a","y","i","n","g","\""," ","S","t","a","t","u","s"," ","\"","Y","e","s","\"">> >> }

\* lines 210-238: the entries _parse_initial_event sets, line by line
RECURSIVE ParseInitialEvent(_, _)
ParseInitialEvent(lines, st) ==
  IF lines = <<>> THEN st
  ELSE LET l == Head(lines)
           st2 == IF ~StartsWith(l, sEVENT) THEN st
                  ELSE [v \in Range(RecognizedVars) |->
                          IF SearchVar(v, l) # None THEN SearchVar(v, l) ELSE st[v]]
       IN ParseInitialEvent(Tail(lines), st2)

\* the test files of the model: no assertion, one, or two
TestConfigs == { <<>>, << AssertTransport >>, << AssertTransport, AssertStatus >> }

InitMon ==
  /\ pc = "idle"
  /\ JoinAbstract
  /\ nslaves = 0
  /\ masterGiven = FALSE
  /\ success = FALSE
  /\ outcomes = <<>>
  /\ exit_code = NoExit
  /\ CallIdle
  /\ CfgIdle
  /\ PrepIdle
  /\ ConnIdle
  /\ RestIdle
  /\ mpc = "start"
  /\ tpc = "none"
  /\ running = FALSE
  /\ sock = None
  /\ sockOpen = FALSE
  /\ mon_state = EmptyState
  /\ test_mode \in BOOLEAN
  /\ assertions \in (IF test_mode THEN TestConfigs ELSE { <<>> })
  /\ now = 1
  /\ started = 0
  /\ line = None
  /\ notes = <<>>
  /\ exitCause = "none"

monFrame ==
  << joinVars, nslaves, masterGiven, success, outcomes, note, ret, before, done,
     cfgVars, prepVars, connVars, restVars >>

\* the process is running: sys.exit ends the daemon thread with it
Alive == mpc \notin {"idle", "exited"}

\* lines 615-623 with start() (407-418), connect() and subscribe(): a failed
\* connect leaves the socket it created; a failed subscribe closes it; with
\* no monitor started main() exits with 1 (the sockets go with the process).
\* Otherwise the snapshot is seeded and the thread is started.
MonStart ==
  /\ mpc = "start"
  /\ \E connected \in BOOLEAN, buffer \in SubscribeBuffers :
       IF ~connected \/ buffer = <<>>
       THEN /\ mpc' = "exited"
            /\ exit_code' = 1
            /\ sock' = None
            /\ sockOpen' = FALSE
            /\ UNCHANGED << tpc, mon_state >>
       ELSE /\ sock' = Socket
            /\ sockOpen' = TRUE
            /\ mon_state' = ParseInitialEvent(buffer, mon_state)
            /\ tpc' = "t269"
            /\ mpc' = "timers"
            /\ exit_code' = exit_code
  /\ UNCHANGED << running, assertions, now, test_mode, started, line, notes,
                  exitCause, monFrame >>

\* lines 626-628: assertion.start() of the next assertion of the test
StartAssertion ==
  /\ mpc = "timers"
  /\ test_mode
  /\ started < Len(assertions)
  /\ assertions' = [assertions EXCEPT ![started + 1] = start(@, now)]
  /\ started' = started + 1
  /\ UNCHANGED << mpc, tpc, running, sock, sockOpen, mon_state, now, test_mode,
                  line, notes, exitCause, exit_code, monFrame >>

\* lines 626-642: all timers started (none in normal mode)
TimersStarted ==
  /\ mpc = "timers"
  /\ ~test_mode \/ started = Len(assertions)
  /\ mpc' = "wait"
  /\ UNCHANGED << tpc, running, sock, sockOpen, mon_state, assertions, now,
                  test_mode, started, line, notes, exitCause, exit_code, monFrame >>

\* lines 644-653: the test loop is left when there is no assertion, when
\* every assertion is met or expired, or when no monitor is running
TestWaitEnds ==
  /\ mpc = "wait"
  /\ test_mode
  /\ \/ assertions = <<>>
     \/ \A i \in 1..Len(assertions) :
          assertions[i].met \/ is_expired(assertions[i], now)
     \/ ~running
  /\ mpc' = "results"
  /\ UNCHANGED << tpc, running, sock, sockOpen, mon_state, assertions, now,
                  test_mode, started, line, notes, exitCause, exit_code, monFrame >>

\* lines 655-674: the results; status_string raising ends main() with a
\* traceback and the exit code 1, the monitors not stopped
TestResults ==
  /\ mpc = "results"
  /\ IF \E i \in 1..Len(assertions) : status_string(assertions[i], now).raised
     THEN /\ mpc' = "exited"
          /\ exit_code' = 1
          /\ sockOpen' = FALSE
     ELSE /\ mpc' = "stop"
          /\ exit_code' = (IF \A i \in 1..Len(assertions) : assertions[i].met
                           THEN 0 ELSE 1)
          /\ sockOpen' = sockOpen
  /\ UNCHANGED << tpc, running, sock, mon_state, assertions, now, test_mode,
                  started, line, notes, exitCause, monFrame >>

\* lines 675-684: normal mode waits until no monitor is running
NormalWaitEnds ==
  /\ mpc = "wait"
  /\ ~test_mode
  /\ ~running
  /\ mpc' = "stop"
  /\ exit_code' = 0
  /\ UNCHANGED << tpc, running, sock, sockOpen, mon_state, assertions, now,
                  test_mode, started, line, notes, exitCause, monFrame >>

\* lines 685-690: Ctrl+C while main() waits
Interrupt ==
  /\ mpc = "wait"
  /\ mpc' = "stop"
  /\ exit_code' = 0
  /\ UNCHANGED << tpc, running, sock, sockOpen, mon_state, assertions, now,
                  test_mode, started, line, notes, exitCause, monFrame >>

\* line 423 of stop(): self.running = False
StopFlag ==
  /\ mpc = "stop"
  /\ running' = FALSE
  /\ mpc' = "join"
  /\ UNCHANGED << tpc, sock, sockOpen, mon_state, assertions, now, test_mode,
                  started, line, notes, exitCause, exit_code, monFrame >>

\* lines 424-425 of stop(): thread.join(timeout=2) returns when the thread
\* has ended or when two seconds have passed, whichever is first
StopJoin ==
  /\ mpc = "join"
  /\ mpc' = "close"
  /\ UNCHANGED << tpc, running, sock, sockOpen, mon_state, assertions, now,
                  test_mode, started, line, notes, exitCause, exit_code, monFrame >>

\* line 426 of stop() and close() (428-435)
StopClose ==
  /\ mpc = "close"
  /\ sockOpen' = (IF sock # None THEN FALSE ELSE sockOpen)
  /\ sock' = None
  /\ mpc' = "stopped"
  /\ UNCHANGED << tpc, running, mon_state, assertions, now, test_mode, started,
                  line, notes, exitCause, exit_code, monFrame >>

\* lines 696-700: sys.exit(exit_code) in test mode, the end of main() otherwise
MonExit ==
  /\ mpc = "stopped"
  /\ mpc' = "exited"
  /\ UNCHANGED << tpc, running, sock, sockOpen, mon_state, assertions, now,
                  test_mode, started, line, notes, exitCause, exit_code, monFrame >>

\* line 269 of listen(), the thread's first statement: self.running = True
ListenFlag ==
  /\ Alive
  /\ tpc = "t269"
  /\ running' = TRUE
  /\ tpc' = "t273"
  /\ UNCHANGED << mpc, sock, sockOpen, mon_state, assertions, now, test_mode,
                  started, line, notes, exitCause, exit_code, monFrame >>

\* line 273: self.sock.settimeout(30), outside the try: with self.sock None
\* the AttributeError ends the thread
ListenTimeout ==
  /\ Alive
  /\ tpc = "t273"
  /\ IF sock = None
     THEN tpc' = "crashed" /\ exitCause' = "crash"
     ELSE tpc' = "loop" /\ exitCause' = exitCause
  /\ UNCHANGED << mpc, running, sock, sockOpen, mon_state, assertions, now,
                  test_mode, started, line, notes, exit_code, monFrame >>

\* lines 277 and 310: the test of `while self.running`, and the assignment
\* after the loop when it fails
ListenTest ==
  /\ Alive
  /\ tpc = "loop"
  /\ IF running
     THEN tpc' = "recv" /\ UNCHANGED << running, exitCause >>
     ELSE tpc' = "ended" /\ running' = FALSE /\ exitCause' = "stop"
  /\ UNCHANGED << mpc, sock, sockOpen, mon_state, assertions, now, test_mode,
                  started, line, notes, exit_code, monFrame >>

\* lines 278-308 and 310, a read that ends the loop: self.sock is None or
\* the socket fails (except Exception), or the device closed the connection
ListenReadEnds ==
  /\ Alive
  /\ tpc = "recv"
  /\ \E cause \in {"empty", "error"} :
       /\ sock = None => cause = "error"
       /\ exitCause' = cause
  /\ tpc' = "ended"
  /\ running' = FALSE
  /\ UNCHANGED << mpc, sock, sockOpen, mon_state, assertions, now, test_mode,
                  started, line, notes, exit_code, monFrame >>

\* lines 303-307: the read times out and the loop continues
ListenReadTimeout ==
  /\ Alive
  /\ tpc = "recv"
  /\ sock # None
  /\ tpc' = "loop"
  /\ UNCHANGED << mpc, running, sock, sockOpen, mon_state, assertions, now,
                  test_mode, started, line, notes, exitCause, exit_code, monFrame >>

\* lines 279-301: a chunk holding one complete line is received; an EVENT
\* line is processed, another line is skipped.  An exception out of
\* _process_event is caught by `except Exception` (308-311), which leaves
\* the loop.
ListenReadLine ==
  /\ Alive
  /\ tpc = "recv"
  /\ sock # None
  /\ \E l \in MonLines :
       /\ line' = l
       /\ IF StartsWith(Strip(l), sEVENT)
          THEN LET res == ProcessEvent(Strip(l), mon_state, assertions, MonDevice, now)
               IN /\ mon_state' = res.state
                  /\ assertions' = res.assertions
                  /\ notes' = res.changes
                  /\ IF res.raised
                     THEN tpc' = "ended" /\ running' = FALSE /\ exitCause' = "line"
                     ELSE tpc' = "loop" /\ UNCHANGED << running, exitCause >>
          ELSE /\ tpc' = "loop"
               /\ notes' = <<>>
               /\ UNCHANGED << mon_state, assertions, running, exitCause >>
  /\ UNCHANGED << mpc, sock, sockOpen, now, test_mode, started, exit_code, monFrame >>

\* time passes, up to the last tick looked at
TickUpTo(last) ==
  /\ Alive
  /\ mpc # "start"
  /\ now < last
  /\ now' = now + 1
  /\ UNCHANGED << mpc, tpc, running, sock, sockOpen, mon_state, assertions,
                  test_mode, started, line, notes, exitCause, exit_code, monFrame >>

Tick == TickUpTo(MaxTime)

NextMon ==
  \/ MonStart
  \/ StartAssertion
  \/ TimersStarted
  \/ TestWaitEnds
  \/ TestResults
  \/ NormalWaitEnds
  \/ Interrupt
  \/ StopFlag
  \/ StopJoin
  \/ StopClose
  \/ MonExit
  \/ ListenFlag
  \/ ListenTimeout
  \/ ListenTest
  \/ ListenReadEnds
  \/ ListenReadTimeout
  \/ ListenReadLine
  \/ Tick

SpecMon == InitMon /\ [][NextMon]_vars

(***************************************************************************)
(* The monitor in test mode with a test file that has assertions, looked   *)
(* at long enough for every assertion started at the first ticks to        *)
(* expire.  main() runs and its sleeps return, time passes; nothing is     *)
(* assumed of the listen thread or of the device.                          *)
(***************************************************************************)
MaxTestTime == 4

InitTest ==
  /\ InitMon
  /\ test_mode
  /\ assertions # <<>>

TestTick == TickUpTo(MaxTestTime)

NextTest ==
  \/ MonStart
  \/ StartAssertion
  \/ TimersStarted
  \/ TestWaitEnds
  \/ TestResults
  \/ Interrupt
  \/ StopFlag
  \/ StopJoin
  \/ StopClose
  \/ MonExit
  \/ ListenFlag
  \/ ListenTimeout
  \/ ListenTest
  \/ ListenReadEnds
  \/ ListenReadTimeout
  \/ ListenReadLine
  \/ TestTick

\* each of main's steps moves mpc, and a tick moves now
MainRuns ==
  /\ WF_mpc(TestWaitEnds)
  /\ WF_mpc(TestResults)
  /\ WF_mpc(StopFlag)
  /\ WF_mpc(StopJoin)
  /\ WF_mpc(StopClose)
  /\ WF_now(TestTick)

SpecTest == InitTest /\ [][NextTest]_vars /\ MainRuns

(***************************************************************************)
(* The configuration: the .env file as both programs parse it (DEVICE_n    *)
(* entries, the sender token, the receiver tokens) and the command line of *)
(* songcast_group.                                                         *)
(***************************************************************************)
\* the device tokens a configuration may name; D3 never has a usable entry
Tokens == {"D1", "D2", "D3"}

\* no token: master_id is None, or the key is absent
NoToken == ""

\* the longest list of receiver tokens
MaxMembers == 2

Config(readable, devices, master_id, member_ids, arg_master, arg_slaves) ==
  [readable |-> readable, devices |-> devices, master_id |-> master_id,
   member_ids |-> member_ids, arg_master |-> arg_master, arg_slaves |-> arg_slaves]

MemberLists ==
  UNION { [1..n -> Tokens] : n \in 0..MaxMembers }

\* the files: one that cannot be read, and every combination of device
\* entries, sender token and receiver tokens
EnvFiles ==
  { Config(FALSE, {}, NoToken, <<>>, FALSE, 0) } \cup
  { Config(TRUE, d, m, ms, FALSE, 0) :
      d \in SUBSET {"D1", "D2"}, m \in {NoToken, "D1", "D3"}, ms \in MemberLists }

\* songcast_monitor load_env_config, lines 481-490: the sender when its
\* token has an entry, then the receivers whose tokens have one
LoadEnvConfig(cfg) ==
  LET master == IF cfg.master_id # NoToken /\ cfg.master_id \in cfg.devices
                THEN << cfg.master_id >> ELSE <<>>
      members == SelectSeq(cfg.member_ids, LAMBDA m : m \in cfg.devices)
  IN IF ~cfg.readable THEN <<>> ELSE master \o members

(***************************************************************************)
(* songcast_monitor main() up to the creation of the monitors              *)
(***************************************************************************)
AssertFollower == StateAssertion("D2", sTransportState, sDevPlaying, 1)

SetupTests == TestConfigs \cup { << AssertTransport, AssertFollower >> }

\* lines 595-606: the monitor of a device holds the assertions of the test
\* whose device id is the device's (their indices, in order)
MonitorFor(device_id, as) ==
  [device_id |-> device_id,
   assertions |-> SelectSeq([k \in 1..Len(as) |-> k],
                            LAMBDA k : as[k].device_id = device_id)]

InitSetup ==
  /\ pc = "idle"
  /\ JoinAbstract
  /\ PrepIdle
  /\ ConnIdle
  /\ RestIdle
  /\ RunIdle
  /\ CallIdle
  /\ mpc = "load"
  /\ tpc = "none"
  /\ running = FALSE
  /\ sock = None
  /\ sockOpen = FALSE
  /\ mon_state = EmptyState
  /\ assertions \in SetupTests
  /\ test_mode = (assertions # <<>>)
  /\ now = 1
  /\ started = 0
  /\ line = None
  /\ notes = <<>>
  /\ exitCause = "none"
  /\ config \in EnvFiles
  /\ slaves = <<>>
  /\ all_devices = <<>>
  /\ monitors = <<>>

setupFrame ==
  << joinVars, nslaves, masterGiven, success, outcomes, note, ret, before, done,
     tpc, running, sock, sockOpen, mon_state, assertions, now, test_mode,
     started, line, notes, exitCause, config, slaves, prepVars, connVars, restVars >>

\* lines 574-581: the configuration is loaded; with no device main() exits with 1
LoadConfig ==
  /\ mpc = "load"
  /\ all_devices' = LoadEnvConfig(config)
  /\ IF all_devices' = <<>>
     THEN mpc' = "exited" /\ exit_code' = 1
     ELSE mpc' = "create" /\ exit_code' = exit_code
  /\ UNCHANGED << monitors, setupFrame >>

\* lines 593-607: one DeviceMonitor per device of the list
CreateMonitors ==
  /\ mpc = "create"
  /\ monitors' = [i \in 1..Len(all_devices) |-> MonitorFor(all_devices[i], assertions)]
  /\ mpc' = "start"
  /\ UNCHANGED << all_devices, exit_code, setupFrame >>

NextSetup ==
  \/ LoadConfig
  \/ CreateMonitors

SpecSetup == InitSetup /\ [][NextSetup]_vars

(***************************************************************************)
(* songcast_group main(): the master and the followers resolved from the   *)
(* command line and the .env file, then the run                            *)
(***************************************************************************)
\* the configurations of songcast_group: a file, with or without
\* --master-ip/--master-udn and with or without one --slave-ip
GroupConfigs ==
  { [f EXCEPT !.arg_master = am, !.arg_slaves = n] :
      f \in EnvFiles, am \in BOOLEAN, n \in 0..1 }

\* _load_env_devices (lines 55-83): a file that cannot be read gives nothing
EnvOf(cfg) ==
  IF cfg.readable THEN cfg
  ELSE [cfg EXCEPT !.devices = {}, !.master_id = NoToken, !.member_ids = <<>>]

\* lines 545-552: the master is resolved from the arguments, else from the
\* entry of the SONGCAST_MASTER token
MasterResolved(cfg) ==
  \/ cfg.arg_master
  \/ EnvOf(cfg).master_id # NoToken /\ EnvOf(cfg).master_id \in EnvOf(cfg).devices

\* lines 554-566: the followers are those of the arguments, else the
\* SONGCAST_MEMBERS tokens that have an entry
SlavesResolved(cfg) ==
  IF cfg.arg_slaves > 0 THEN [i \in 1..cfg.arg_slaves |-> "arg"]
  ELSE SelectSeq(EnvOf(cfg).member_ids, LAMBDA m : m \in EnvOf(cfg).devices)

InitMain ==
  /\ pc = "parse"
  /\ JoinAbstract
  /\ PrepIdle
  /\ ConnIdle
  /\ RestIdle
  /\ MonIdle
  /\ config \in GroupConfigs
  /\ slaves = <<>>
  /\ all_devices = <<>>
  /\ monitors = <<>>
  /\ nslaves = 0
  /\ masterGiven = FALSE
  /\ success = FALSE
  /\ exit_code = NoExit
  /\ outcomes = <<>>

\* lines 531-566: main() parses its arguments and the .env file
ParseConfig ==
  /\ pc = "parse"
  /\ masterGiven' = MasterResolved(config)
  /\ slaves' = SlavesResolved(config)
  /\ nslaves' = Len(slaves')
  /\ pc' = "main"
  /\ UNCHANGED << r, all_ok, recvPresent, joined, grouped, success, exit_code,
                  outcomes, leader_room, leader_name, candidate_uris, ohz_uri, sq,
                  ci, pi, ok, state, grouped_now, rUri, histVars, gvars, monVars,
                  config, all_devices, monitors, prepVars, connVars, restVars >>

NextMain ==
  \/ ParseConfig
  \/ NextRun

SpecMain == InitMain /\ [][NextMain]_vars

(***************************************************************************)
(* The preparation of one follower: wake_device, set_source_to_songcast    *)
(* with _get_current_source_info and _find_songcast_index, and then the    *)
(* join.  The answers of the Product service are text, as the code reads   *)
(* them: numbers are digit strings that int() parses, Visible is a word.   *)
(***************************************************************************)
\* the sources a device of the model has at most
MaxSources == 3

\* line 137: the count taken when SourceCount gives no Value
DefaultCount == 8

DigitChars == <<"0","1","2","3","4","5","6","7","8","9">>

\* whether int() accepts the text
IsInt(s) == s # <<>> /\ \A i \in 1..Len(s) : \E d \in 1..10 : DigitChars[d] = s[i]

\* int() of a text of digits
RECURSIVE IntOf(_)
IntOf(s) ==
  IF s = <<>> THEN 0
  ELSE 10 * IntOf(SubSeq(s, 1, Len(s) - 1))
       + (CHOOSE d \in 0..9 : DigitChars[d + 1] = s[Len(s)])

\* the text of a number below ten
TextOf(n) == << DigitChars[n + 1] >>

\* Python's "sub in s"
Contains(sub, s) ==
  \E i \in 1..(Len(s) - Len(sub) + 1) : SubSeq(s, i, i + Len(sub) - 1) = sub

sSongcast == <<"s","o","n","g","c","a","s","t">>
sReceiver == <<"r","e","c","e","i","v","e","r">>

\* the answer of Product.Source for one index, with what the source is:
\* whether it is the Songcast receiver source and whether it is shown
SourceAnswer(raised, Type, Name, SystemName, Visible, isReceiver, shown) ==
  [raised |-> raised, Type |-> Type, Name |-> Name, SystemName |-> SystemName,
   Visible |-> Visible, isReceiver |-> isReceiver, shown |-> shown]

SrcReceiver == SourceAnswer(FALSE, <<"R","e","c","e","i","v","e","r">>, <<"S","o","n","g","c","a","s","t">>, None, <<"t","r","u","e">>, TRUE, TRUE)
SrcHidden == SourceAnswer(FALSE, <<"R","e","c","e","i","v","e","r">>, <<"S","o","n","g","c","a","s","t">>, None, <<"f","a","l","s","e">>, TRUE, FALSE)
SrcRadio == SourceAnswer(FALSE, <<"R","a","d","i","o">>, <<"R","a","d","i","o">>, None, <<" ","T","r","u","e">>, FALSE, TRUE)
SrcNamed == SourceAnswer(FALSE, <<"P","l","a","y","l","i","s","t">>, None, <<"S","O","N","G","C","A","S","T">>, None, TRUE, TRUE)
SrcRaises == SourceAnswer(TRUE, None, None, None, None, FALSE, FALSE)

SourceKinds == {SrcReceiver, SrcHidden, SrcRadio, SrcNamed, SrcRaises}

SourceLists == UNION { [1..n -> SourceKinds] : n \in 0..MaxSources }

\* the answer of a call that gives a number: it raised, or its Value and
\* Index arguments (None when absent)
NumAnswer(raised, Value, Index) == [raised |-> raised, Value |-> Value, Index |-> Index]

\* a device: whether set_standby raises, whether it has a Product service,
\* the answers of SourceIndex and SourceCount, its sources, and how many of
\* the two SetSourceIndex calls raise
Product(standbyRaises, svc, cur, count, sources, setRaises) ==
  [standbyRaises |-> standbyRaises, svc |-> svc, cur |-> cur, count |-> count,
   sources |-> sources, setRaises |-> setRaises]

CurAnswers ==
  { NumAnswer(TRUE, None, None), NumAnswer(FALSE, None, None),
    NumAnswer(FALSE, None, TextOf(1)) }
  \cup { NumAnswer(FALSE, TextOf(i), None) : i \in 0..(MaxSources - 1) }

CountAnswers(n) ==
  { NumAnswer(TRUE, None, None), NumAnswer(FALSE, None, None),
    NumAnswer(FALSE, <<"x">>, None), NumAnswer(FALSE, TextOf(n), None) }

\* the devices without a Product service, and those with the sources l
ProductsWith(l) ==
  { Product(w, FALSE, NumAnswer(TRUE, None, None), NumAnswer(TRUE, None, None), <<>>, 0) :
      w \in BOOLEAN }
  \cup { Product(w, TRUE, cur, count, l, k) :
           w \in BOOLEAN, cur \in CurAnswers, count \in CountAnswers(Len(l)),
           k \in 0..2 }

\* lines 121-129: True, or False when set_standby raised
wake_device(p) == ~p.standbyRaises

\* Product.Source(Index=i) raises for an index the device does not have
SourceRaises(p, i) == i >= Len(p.sources) \/ p.sources[i + 1].raised

\* lines 141-142, 164-165: the type and the name as the code compares them
TypOf(sres) == Lower(Or(sres.Type, <<>>))

NameOf(sres) == Lower(Or(Or(sres.Name, sres.SystemName), <<>>))

\* lines 177, 144: the test for the Songcast receiver source
IsSongcast(typ, name) ==
  Contains(sSongcast, name) \/ Contains(sReceiver, typ) \/ Contains(sSongcast, typ)

\* line 143: vis in ("true", "1", "yes")
VisOf(sres) == Lower(Strip(Or(sres.Visible, <<"t","r","u","e">>)))

\* line 144 with the visibility test dropped
SourceMatchesHidden(sres) == IsSongcast(TypOf(sres), NameOf(sres))

\* line 144: the test a source has to pass
SourceMatches(sres) ==
  /\ VisOf(sres) \in { <<"t","r","u","e">>, <<"1">>, <<"y","e","s">> }
  /\ IsSongcast(TypOf(sres), NameOf(sres))

\* a result that may be None
NoResult == [some |-> FALSE, val |-> 0]

Result(v) == [some |-> TRUE, val |-> v]

\* lines 138-147: the loop over range(count) from index i on
RECURSIVE FindFrom(_, _, _)
FindFrom(p, i, count) ==
  IF i >= count THEN NoResult
  ELSE IF ~SourceRaises(p, i) /\ SourceMatches(p.sources[i + 1]) THEN Result(i)
  ELSE FindFrom(p, i + 1, count)

\* lines 131-150: _find_songcast_index
FindSongcastIndex(p) ==
  IF ~p.svc \/ p.count.raised THEN NoResult
  ELSE IF Truthy(p.count.Value) /\ ~IsInt(p.count.Value) THEN NoResult
  ELSE FindFrom(p, 0, IF Truthy(p.count.Value) THEN IntOf(p.count.Value)
                      ELSE DefaultCount)

\* lines 152-168: _get_current_source_info; val is the dict returned
GetCurrentSourceInfo(p) ==
  IF ~p.svc \/ p.cur.raised THEN NoResult
  ELSE LET text == Or(p.cur.Value, p.cur.Index)
       IN IF ~Truthy(text) \/ ~IsInt(text) THEN NoResult
          ELSE IF SourceRaises(p, IntOf(text)) THEN NoResult
          ELSE Result([index |-> IntOf(text),
                       type |-> TypOf(p.sources[IntOf(text) + 1]),
                       name |-> NameOf(p.sources[IntOf(text) + 1])])

\* a SetSourceIndex call: the name of its argument and the index
SetCall(arg, idx) == [arg |-> arg, index |-> idx]

\* lines 170-195: set_source_to_songcast: what it returns and the
\* SetSourceIndex calls it issues
set_source_to_songcast(p) ==
  LET cur == GetCurrentSourceInfo(p)
      idx == FindSongcastIndex(p)
  IN IF ~p.svc THEN [ret |-> FALSE, calls |-> <<>>]
     ELSE IF cur.some /\ IsSongcast(cur.val.type, cur.val.name)
       THEN [ret |-> TRUE, calls |-> <<>>]
     ELSE IF ~idx.some THEN [ret |-> FALSE, calls |-> <<>>]
     ELSE IF p.setRaises = 0
       THEN [ret |-> TRUE, calls |-> << SetCall("aIndex", idx.val) >>]
     ELSE [ret |-> (p.setRaises = 1),
           calls |-> << SetCall("aIndex", idx.val), SetCall("Value", idx.val) >>]

\* Python's str() of a bool
BoolText(b) == IF b THEN "True" ELSE "False"

InitPrepare ==
  /\ pc = "wake"
  /\ JoinAbstract
  /\ RunIdle
  /\ MonIdle
  /\ CfgIdle
  /\ woke = "none"
  /\ \E l \in SourceLists : product \in ProductsWith(l)
  /\ calls = <<>>
  /\ srcRet = "none"
  /\ ConnIdle
  /\ RestIdle

prepFrame ==
  << r, all_ok, recvPresent, resolveVars, loopVars, grouped, rUri, histVars,
     gvars, runVars, monVars, cfgVars, connVars, restVars, product >>

\* the follower left when its wake failed
AfterWakeChecked(result) == IF result THEN "source" ELSE "report"

\* lines 495-498: the result of wake_device is not read
AfterWake(result) == "source"

\* lines 494-496: the follower is woken
WakeDevice ==
  /\ pc = "wake"
  /\ woke' = BoolText(wake_device(product))
  /\ pc' = AfterWake(wake_device(product))
  /\ UNCHANGED << joined, calls, srcRet, prepFrame >>

\* lines 498-506: the source selection, whose result is not read
SetSourceToSongcast ==
  /\ pc = "source"
  /\ LET res == set_source_to_songcast(product)
     IN /\ calls' = res.calls
        /\ srcRet' = BoolText(res.ret)
  /\ pc' = "join"
  /\ UNCHANGED << joined, woke, prepFrame >>

\* lines 507-510: the join, taken as one step
ReceiverJoin ==
  /\ pc = "join"
  /\ joined' \in BOOLEAN
  /\ pc' = "verify"
  /\ UNCHANGED << woke, calls, srcRet, prepFrame >>

NextPrepare ==
  \/ WakeDevice
  \/ SetSourceToSongcast
  \/ ReceiverJoin

SpecPrepare == InitPrepare /\ [][NextPrepare]_vars

(***************************************************************************)
(* DeviceMonitor.start with connect() and subscribe(): the set-up of one   *)
(* event connection, step by step.  The text received is kept chunk by     *)
(* chunk; a window of 2 or 3 seconds holds at most MaxChunks chunks.       *)
(***************************************************************************)
MaxChunks == 3

\* line 151: the empty line sent first
sBlankLine == <<"\r","\n">>

\* line 173: the command of subscribe()
sSubscribe == <<"S","U","B","S","C","R","I","B","E"," ","D","s","/","R","e","c","e","i","v","e","r","\r","\n">>

sAliveDs == <<"A","L","I","V","E"," ","D","s">>

\* what the device announces after the connection is made
AnnounceChunks == { <<"A","L","I","V","E"," ","D","s">>, <<"A","L","I","V","E"," ","P","r","e","a","m","p">> }

\* what may arrive after the SUBSCRIBE: blank text, a late announcement, the
\* acknowledgement, the initial event, an event that is not the initial one
ResponseChunks ==
  { <<" ">>,
    <<"A","L","I","V","E"," ","P","r","e","a","m","p">>,
    <<"S","U","B","S","C","R","I","B","E"," ","1">>,
    <<"E","V","E","N","T"," ","0"," ","T","r","a","n","s","p","o","r","t","S","t","a","t","e"," ","\"","S","t","o","p","p","e","d","\"">>,
    <<"E","V","E","N","T"," ","5"," ","S","t","a","t","u","s"," ","\"","Y","e","s","\"">> }

\* how a recv() of a read loop ends other than with text: the socket timed
\* out, the peer closed (an empty chunk), the window of the loop is over, or
\* another error was raised
RecvEnds == {"timeout", "closed", "timeup", "error"}

\* line 144: 'ALIVE Ds' in buffer
HasAliveDs(buf) == \E k \in 1..Len(buf) : Contains(sAliveDs, buf[k])

\* line 187: re.search(r'^EVENT\s+0\s+', buffer, re.MULTILINE), for one line
IsInitialEvent(l) ==
  LET a == Len(sEVENT) + 1
      b == SpanEnd(l, a, SpaceChars)
  IN /\ StartsWith(l, sEVENT)
     /\ b > a
     /\ b <= Len(l)
     /\ l[b] = "0"
     /\ SpanEnd(l, b + 1, SpaceChars) > b + 1

HasInitialEvent(buf) == \E k \in 1..Len(buf) : IsInitialEvent(buf[k])

\* line 191 dropped: whatever was received counts as the response
ResponseReceivedAlways(buf) == TRUE

\* line 191: buffer.strip() is not empty
ResponseReceived(buf) == \E k \in 1..Len(buf) : Strip(buf[k]) # <<>>

InitConnect ==
  /\ pc = "idle"
  /\ JoinAbstract
  /\ RunIdle
  /\ CfgIdle
  /\ PrepIdle
  /\ CallIdle
  /\ mpc = "connect"
  /\ tpc = "none"
  /\ running = FALSE
  /\ sock = None
  /\ sockOpen = FALSE
  /\ mon_state = EmptyState
  /\ assertions = <<>>
  /\ now = 1
  /\ test_mode = FALSE
  /\ started = 0
  /\ line = None
  /\ notes = <<>>
  /\ exitCause = "none"
  /\ wire = <<>>
  /\ received = <<>>
  /\ RestIdle

connFrame ==
  << joinVars, runVars, cfgVars, prepVars, restVars, running, assertions, now, test_mode,
     started, line, notes, exitCause, note, ret, before, done >>

\* lines 127-132, 158-166: the socket is created and connected; a failure
\* makes connect() return False with the socket left as it is
ConnectSocket ==
  /\ mpc = "connect"
  /\ sock' = Socket
  /\ sockOpen' = TRUE
  /\ \E connected \in BOOLEAN : mpc' = IF connected THEN "announce" ELSE "failed"
  /\ UNCHANGED << tpc, mon_state, wire, received, connFrame >>

\* lines 135-146: one iteration of the loop that reads the announcements
ReadAnnouncement ==
  /\ mpc = "announce"
  /\ \/ \E e \in RecvEnds :
          /\ mpc' = IF e = "error" THEN "failed" ELSE "blank"
          /\ UNCHANGED received
     \/ \E chunk \in AnnounceChunks :
          /\ Len(received) < MaxChunks
          /\ received' = Append(received, chunk)
          /\ mpc' = IF HasAliveDs(received') THEN "blank" ELSE "announce"
  /\ UNCHANGED << tpc, sock, sockOpen, mon_state, wire, connFrame >>

\* lines 150-157: the empty line; a failure of the send is swallowed
SendBlankLine ==
  /\ mpc = "blank"
  /\ wire' = Append(wire, sBlankLine)
  /\ mpc' = "subscribe"
  /\ UNCHANGED << tpc, sock, sockOpen, mon_state, received, connFrame >>

\* lines 173-178, 204-206: the SUBSCRIBE; a failure of the send makes
\* subscribe() return False
SendSubscribe ==
  /\ mpc = "subscribe"
  /\ wire' = Append(wire, sSubscribe)
  /\ received' = <<>>
  /\ \E raised \in BOOLEAN : mpc' = IF raised THEN "closing" ELSE "response"
  /\ UNCHANGED << tpc, sock, sockOpen, mon_state, connFrame >>

\* lines 179-193: one iteration of the loop that reads the response, and
\* the test of line 191 when the loop ends
ReadResponse ==
  /\ mpc = "response"
  /\ \/ \E e \in RecvEnds :
          /\ mpc' = IF e = "error" \/ ~ResponseReceived(received)
                    THEN "closing" ELSE "parse"
          /\ UNCHANGED received
     \/ \E chunk \in ResponseChunks :
          /\ Len(received) < MaxChunks
          /\ received' = Append(received, chunk)
          /\ mpc' = IF HasInitialEvent(received') THEN "parse" ELSE "response"
  /\ UNCHANGED << tpc, sock, sockOpen, mon_state, wire, connFrame >>

\* lines 195-202: _parse_initial_event, and subscribe() returns True
ParseResponse ==
  /\ mpc = "parse"
  /\ mon_state' = ParseInitialEvent(received, mon_state)
  /\ mpc' = "thread"
  /\ UNCHANGED << tpc, sock, sockOpen, wire, received, connFrame >>

\* lines 415-417: the thread that runs listen() is started
StartThread ==
  /\ mpc = "thread"
  /\ tpc' = "t269"
  /\ mpc' = "started"
  /\ UNCHANGED << sock, sockOpen, mon_state, wire, received, connFrame >>

\* lines 411-413 with close() (428-435): subscribe() failed
CloseAfterSubscribe ==
  /\ mpc = "closing"
  /\ sockOpen' = (IF sock # None THEN FALSE ELSE sockOpen)
  /\ sock' = None
  /\ mpc' = "failed"
  /\ UNCHANGED << tpc, mon_state, wire, received, connFrame >>

NextConnect ==
  \/ ConnectSocket
  \/ ReadAnnouncement
  \/ SendBlankLine
  \/ SendSubscribe
  \/ ReadResponse
  \/ ParseResponse
  \/ StartThread
  \/ CloseAfterSubscribe

SpecConnect == InitConnect /\ [][NextConnect]_vars

(***************************************************************************)
(* now_playing.query_device: is_songcast_grouped, on the answers that      *)
(* _is_grouped is given                                                    *)
(***************************************************************************)
sOhSongcastScheme == <<"o","h","s","o","n","g","c","a","s","t">>

\* lines 266-339 of now_playing.py: False unless the selected source is
\* Songcast, the Receiver service exists and Receiver.Sender answers; a
\* TransportState that raises reads as no state (lines 283-292)
is_songcast_grouped(is_songcast_source, recvHere, sres, ts) ==
  IF ~is_songcast_source \/ ~recvHere \/ sres.raised THEN FALSE
  ELSE LET uri_val == Or(sres.Uri, sres.uri)
           songcast_transport_state ==
             IF ts.raised THEN None ELSE Or(ts.TransportState, ts.state)
           tsl == Lower(Or(songcast_transport_state, <<>>))
           scheme == IF Truthy(uri_val) THEN UrlScheme(uri_val) ELSE None
       IN \/ scheme = sOhz
          \/ Truthy(uri_val) /\ scheme = sOhSongcastScheme /\ tsl \in ActiveStates

Report(songcast, d, g) == [songcast |-> songcast, done |-> d, grouped |-> g]

InitReport ==
  /\ pc = "idle"
  /\ r = 1
  /\ all_ok = TRUE
  /\ recvPresent = FALSE
  /\ leader_room = None
  /\ leader_name = None
  /\ candidate_uris = <<>>
  /\ ohz_uri = None
  /\ sq = 0
  /\ ci = 0
  /\ pi = 0
  /\ ok = FALSE
  /\ state = None
  /\ grouped_now = FALSE
  /\ joined = FALSE
  /\ grouped = FALSE
  /\ rUri = <<>>
  /\ startKind = "none"
  /\ sent = {}
  /\ readFailed = FALSE
  /\ inLeader = NoLeaderResp
  /\ inSenders = NoSendersResp
  /\ gq \in GQueries
  /\ gdone = FALSE
  /\ gres = FALSE
  /\ RunIdle
  /\ MonIdle
  /\ CfgIdle
  /\ PrepIdle
  /\ ConnIdle
  /\ np \in { Report(songcast, FALSE, FALSE) : songcast \in BOOLEAN }
  /\ wait = None
  /\ last_state = None
  /\ wret = None
  /\ feed = None
  /\ fed = 0
  /\ processed = <<>>
  /\ lastRead = "none"

\* query_device and _is_grouped, each called once on the same answers
QueryDevice ==
  /\ ~np.done
  /\ np' = Report(np.songcast, TRUE, is_songcast_grouped(np.songcast, gq.recv, gq.sres, gq.ts))
  /\ gdone' = TRUE
  /\ gres' = IsGroupedRule(gq.recv, gq.sres, gq.ts)
  /\ UNCHANGED << pc, r, all_ok, recvPresent, resolveVars, loopVars, joined,
                  grouped, rUri, histVars, gq, runVars, monVars, cfgVars,
                  prepVars, connVars, wait, last_state, wret, feed, fed,
                  processed, lastRead >>

NextReport == QueryDevice

SpecReport == InitReport /\ [][NextReport]_vars

(***************************************************************************)
(* lpec_utils.wait_for_state: polling query_receiver_state until the       *)
(* expected entries are all there or the timeout has elapsed.  Time is     *)
(* counted in ticks of the poll interval's unit.                           *)
(***************************************************************************)
\* the largest timeout a caller passes, in ticks
MaxWait == 3

\* the longest a query (itself bounded by its 2.0 seconds of timeout) takes
MaxQueryTicks == 1

sVolume == <<"V","o","l","u","m","e">>

\* expected_state.items(): the pairs of the dict, in insertion order
ExpectedStates ==
  { <<>>,
    << << sTransportState, sDevPlaying >> >>,
    << << sTransportState, sStopped >>, << sStatus, vYes >> >>,
    << << sTransportState, sDevPlaying >>, << sStatus, vYes >> >>,
    << << sVolume, vYes >> >> }

\* what one query meets: the connection fails, or the device answers the
\* SUBSCRIBE with those lines before the reads end
QueryAnswers ==
  { [raised |-> TRUE, lines |-> <<>>] } \cup
  { [raised |-> FALSE, lines |-> b] : b \in SubscribeBuffers }

\* query_receiver_state, lines 41-120: None when anything raised or no
\* recognized variable was found, else the dict of the variables found
query_receiver_state(answer) ==
  IF answer.raised THEN NoResult
  ELSE LET found == ParseInitialEvent(answer.lines, EmptyState)
       IN IF found = EmptyState THEN NoResult ELSE Result(found)

\* state.get(key)
StateGet(st, key) == IF key \in DOMAIN st THEN st[key] ELSE None

\* lines 152-158 with the test turned around: one matching entry is enough
all_match_any(st, expected_state) ==
  \E i \in 1..Len(expected_state) :
     StateGet(st, expected_state[i][1]) = expected_state[i][2]

\* lines 152-158: every expected entry equals the entry of the state
all_match(st, expected_state) ==
  \A i \in 1..Len(expected_state) :
     StateGet(st, expected_state[i][1]) = expected_state[i][2]

Waiting(e, t, p, n, at) ==
  [expected_state |-> e, timeout |-> t, poll_interval |-> p, start |-> 1,
   now |-> n, at |-> at]

Returned(b, st) == [returned |-> TRUE, success |-> b, state |-> st]

NotReturned == [returned |-> FALSE, success |-> FALSE, state |-> NoResult]

InitWait ==
  /\ pc = "idle"
  /\ JoinAbstract
  /\ RunIdle
  /\ MonIdle
  /\ CfgIdle
  /\ PrepIdle
  /\ ConnIdle
  /\ np = None
  /\ \E e \in ExpectedStates, t \in 0..MaxWait, p \in 1..2 :
       wait = Waiting(e, t, p, 1, "loop")
  /\ last_state = NoResult
  /\ wret = NotReturned
  /\ feed = None
  /\ fed = 0
  /\ processed = <<>>
  /\ lastRead = "none"

waitFrame ==
  UNCHANGED << joinVars, runVars, monVars, cfgVars, prepVars, connVars, np,
               feed, fed, processed, lastRead >>

\* line 148: the loop goes on while the timeout has not elapsed
WaitLoopTest ==
  /\ wait.at = "loop"
  /\ wait.now - wait.start < wait.timeout
  /\ wait' = [wait EXCEPT !.at = "query"]
  /\ UNCHANGED << last_state, wret >>
  /\ waitFrame

\* lines 148, 163-164: the timeout has elapsed: return False, last_state
WaitTimedOut ==
  /\ wait.at = "loop"
  /\ ~(wait.now - wait.start < wait.timeout)
  /\ wait' = [wait EXCEPT !.at = "returned"]
  /\ wret' = Returned(FALSE, last_state)
  /\ UNCHANGED last_state
  /\ waitFrame

\* lines 149-160: one query, which takes some time, and the test of its state
WaitQuery ==
  /\ wait.at = "query"
  /\ \E answer \in QueryAnswers, took \in 0..MaxQueryTicks :
       LET queried == query_receiver_state(answer)
       IN /\ last_state' = queried
          /\ IF queried.some /\ all_match(queried.val, wait.expected_state)
             THEN /\ wret' = Returned(TRUE, queried)
                  /\ wait' = [wait EXCEPT !.now = @ + took, !.at = "returned"]
             ELSE /\ wret' = wret
                  /\ wait' = [wait EXCEPT !.now = @ + took, !.at = "sleep"]
  /\ waitFrame

\* line 161: time.sleep(poll_interval)
WaitSleep ==
  /\ wait.at = "sleep"
  /\ wait' = [wait EXCEPT !.now = @ + wait.poll_interval, !.at = "loop"]
  /\ UNCHANGED << last_state, wret >>
  /\ waitFrame

NextWait ==
  \/ WaitLoopTest
  \/ WaitTimedOut
  \/ WaitQuery
  \/ WaitSleep

\* the calling thread runs: a step that can be taken is taken
SpecWait == InitWait /\ [][NextWait]_vars /\ WF_vars(NextWait)

(***************************************************************************)
(* The event connection as a stream of characters: what the device sends   *)
(* after the SUBSCRIBE, cut into the chunks the reads return, read first   *)
(* by subscribe() and then by listen()                                     *)
(***************************************************************************)
\* the most places at which the stream of a run is cut into chunks
MaxCuts == 2

\* how far into a line a cut inside the line falls
CutInside == 8

\* what str.strip() removes
Whitespace == {" ", "\t", "\r", "\n"}

RECURSIVE LStripWs(_)
LStripWs(s) == IF s # <<>> /\ Head(s) \in Whitespace THEN LStripWs(Tail(s)) ELSE s

RECURSIVE RStripWs(_)
RStripWs(s) ==
  IF s # <<>> /\ s[Len(s)] \in Whitespace THEN RStripWs(SubSeq(s, 1, Len(s) - 1)) ELSE s

\* line.strip() and buffer.strip()
StripWs(s) == RStripWs(LStripWs(s))

\* buffer.split('\n', 1) of a buffer that holds a '\n'
SplitFirst(b) ==
  LET i == Find(b, "\n")
  IN [line |-> SubSeq(b, 1, i - 1), rest |-> SubSeq(b, i + 1, Len(b))]

\* buffer.splitlines(), each line stripped as lines 213-214 do
RECURSIVE SplitLines(_)
SplitLines(b) ==
  IF b = <<>> THEN <<>>
  ELSE IF Find(b, "\n") = 0 THEN << StripWs(b) >>
       ELSE << StripWs(SplitFirst(b).line) >> \o SplitLines(SplitFirst(b).rest)

\* line 187: re.search(r'^EVENT\s+0\s+', buffer, re.MULTILINE) on the text
InitialEventIn(b) ==
  \E p \in 1..Len(b) :
     /\ p = 1 \/ b[p - 1] = "\n"
     /\ IsInitialEvent(SubSeq(b, p, Len(b)))

RECURSIVE Concat(_)
Concat(chunks) == IF chunks = <<>> THEN <<>> ELSE Head(chunks) \o Concat(Tail(chunks))

sCRLF == <<"\r","\n">>

lAck == <<"S","U","B","S","C","R","I","B","E"," ","1">>
lInitStopped == <<"E","V","E","N","T"," ","0"," ","T","r","a","n","s","p","o","r","t","S","t","a","t","e"," ","\"","S","t","o","p","p","e","d","\"">>
lInitPlaying == <<"E","V","E","N","T"," ","0"," ","T","r","a","n","s","p","o","r","t","S","t","a","t","e"," ","\"","P","l","a","y","i","n","g","\""," ","S","t","a","t","u","s"," ","\"","Y","e","s","\"">>
lPlaying == <<"E","V","E","N","T"," ","1"," ","T","r","a","n","s","p","o","r","t","S","t","a","t","e"," ","\"","P","l","a","y","i","n","g","\"">>
lStatusYes == <<"E","V","E","N","T"," ","2"," ","S","t","a","t","u","s"," ","\"","Y","e","s","\"">>
lStopped == <<"E","V","E","N","T"," ","3"," ","T","r","a","n","s","p","o","r","t","S","t","a","t","e"," ","\"","S","t","o","p","p","e","d","\"">>
lPlayingAgain == <<"E","V","E","N","T"," ","4"," ","T","r","a","n","s","p","o","r","t","S","t","a","t","e"," ","\"","P","l","a","y","i","n","g","\"">>
lMetadata == <<"E","V","E","N","T"," ","5"," ","M","e","t","a","d","a","t","a"," ","\"","m","\""," ","U","r","i"," ","\"","u","\"">>

\* what a device sends after the SUBSCRIBE, line by line: the
\* acknowledgement, the initial event, the events that follow it
DeviceRuns ==
  { << lAck, lInitStopped >>,
    << lAck, lInitStopped, lPlaying, lStatusYes >>,
    << lAck, lInitPlaying, lPlaying, lStopped, lPlayingAgain >>,
    << lAck, lInitStopped, lMetadata, lPlaying >> }

\* the text of those lines, each ended by CR LF
RECURSIVE TextOfLines(_)
TextOfLines(ls) == IF ls = <<>> THEN <<>> ELSE Head(ls) \o sCRLF \o TextOfLines(Tail(ls))

\* where line k of the run starts in its text, less one
RECURSIVE LineOffset(_, _)
LineOffset(ls, k) == IF k = 1 THEN 0 ELSE LineOffset(ls, k - 1) + Len(ls[k - 1]) + 2

\* the places at which the reads may cut the text: after a whole line, or
\* inside a line that follows the acknowledgement
CutPlaces(ls) ==
  { LineOffset(ls, k) : k \in 2..Len(ls) } \cup
  { LineOffset(ls, k) + CutInside : k \in 2..Len(ls) }

\* the text cut at the places of cuts, in order
RECURSIVE ChunksFrom(_, _, _)
ChunksFrom(text, from, cuts) ==
  IF cuts = {} THEN << SubSeq(text, from + 1, Len(text)) >>
  ELSE LET c == CHOOSE x \in cuts : \A y \in cuts : x <= y
       IN << SubSeq(text, from + 1, c) >> \o ChunksFrom(text, c, cuts \ {c})

Feeds(ls) ==
  { ChunksFrom(TextOfLines(ls), 0, cuts) :
      cuts \in { c \in SUBSET CutPlaces(ls) : Cardinality(c) <= MaxCuts } }

(***************************************************************************)
(* One monitor fed such a stream: start() with its subscribe() and the     *)
(* seeding of the snapshot, then listen() with its buffer, beside main()   *)
(***************************************************************************)
Handled(how, l) == [by |-> how, line |-> l]

\* lines 177-190: the read loop of subscribe() has read k chunks: it went
\* on while no initial event was in the buffer; a timeout or the 3 seconds
\* may end it at any chunk
SubscribeReads(chunks, k) ==
  \A j \in 0..(k - 1) : ~InitialEventIn(Concat(SubSeq(chunks, 1, j)))

\* the EVENT lines _parse_initial_event finds in the buffer (lines 212-216)
SeededLines(buffer) ==
  LET ls == SelectSeq(SplitLines(buffer), LAMBDA l : StartsWith(l, sEVENT))
  IN [i \in 1..Len(ls) |-> Handled("seed", ls[i])]

InitListen ==
  /\ pc = "idle"
  /\ JoinAbstract
  /\ nslaves = 0
  /\ masterGiven = FALSE
  /\ success = FALSE
  /\ outcomes = <<>>
  /\ exit_code = NoExit
  /\ CallIdle
  /\ CfgIdle
  /\ PrepIdle
  /\ ConnIdle
  /\ mpc = "start"
  /\ tpc = "none"
  /\ running = FALSE
  /\ sock = None
  /\ sockOpen = FALSE
  /\ mon_state = EmptyState
  /\ test_mode \in BOOLEAN
  /\ assertions \in (IF test_mode THEN TestConfigs ELSE { <<>> })
  /\ now = 1
  /\ started = 0
  /\ line = None
  /\ notes = <<>>
  /\ exitCause = "none"
  /\ np = None
  /\ wait = None
  /\ last_state = None
  /\ wret = None
  /\ \E ls \in DeviceRuns : feed \in Feeds(ls)
  /\ fed = 0
  /\ processed = <<>>
  /\ lastRead = "none"

listenFrame ==
  << joinVars, nslaves, masterGiven, success, outcomes, note, ret, before, done,
     cfgVars, prepVars, wire, np, wait, last_state, wret, feed >>

\* the seeding made to notify: every assertion is checked against the entry
\* of its variable in the seeded snapshot
AssertionsAfterSeedingChecked(as, st, t) ==
  [i \in 1..Len(as) |->
     check(as[i], MonDevice, as[i].variable, st[as[i].variable], t).self]

\* lines 210-238: _parse_initial_event assigns the entries and calls no
\* check: the assertions are what they were
AssertionsAfterSeeding(as, st, t) == as

\* lines 407-418: start(): connect(), subscribe() with the seeding of the
\* snapshot from its buffer, and the creation of the listen thread
StartMonitor ==
  /\ mpc = "start"
  /\ \E connected \in BOOLEAN, k \in 0..Len(feed) :
       /\ SubscribeReads(feed, k)
       /\ ~connected => k = 0
       /\ LET buffer == Concat(SubSeq(feed, 1, k))
          IN IF ~connected \/ StripWs(buffer) = <<>>
             THEN /\ mpc' = "exited"
                  /\ exit_code' = 1
                  /\ sock' = None
                  /\ sockOpen' = FALSE
                  /\ fed' = k
                  /\ UNCHANGED << tpc, mon_state, processed >>
             ELSE /\ sock' = Socket
                  /\ sockOpen' = TRUE
                  /\ mon_state' = ParseInitialEvent(SplitLines(buffer), mon_state)
                  /\ processed' = SeededLines(buffer)
                  /\ fed' = k
                  /\ tpc' = "t269"
                  /\ mpc' = "timers"
                  /\ exit_code' = exit_code
  /\ assertions' = AssertionsAfterSeeding(assertions, mon_state', now)
  /\ UNCHANGED << running, now, test_mode, started, line, notes, exitCause,
                  received, lastRead, listenFrame >>

\* a read timeout treated like any other exception: the loop is left
AfterReadTimeoutEnds == "ended"

\* lines 303-307: except socket.timeout: continue
AfterReadTimeout == "loop"

\* lines 279, 303-307: recv() times out
ListenRecvTimeout ==
  /\ Alive
  /\ tpc = "recv"
  /\ sock # None
  /\ lastRead' = "timeout"
  /\ tpc' = AfterReadTimeout
  /\ running' = (IF tpc' = "ended" THEN FALSE ELSE running)
  /\ UNCHANGED << mpc, sock, sockOpen, mon_state, assertions, now, test_mode,
                  started, line, notes, exitCause, exit_code, received, fed,
                  processed, listenFrame >>

\* lines 279-283, 308-310: recv() returns nothing (the device closed) or
\* raises (self.sock is None, or the socket fails): the loop is left
ListenRecvEnds ==
  /\ Alive
  /\ tpc = "recv"
  /\ \E cause \in {"empty", "error"} :
       /\ sock = None => cause = "error"
       /\ exitCause' = cause
       /\ lastRead' = cause
  /\ tpc' = "ended"
  /\ running' = FALSE
  /\ UNCHANGED << mpc, sock, sockOpen, mon_state, assertions, now, test_mode,
                  started, line, notes, exit_code, received, fed, processed,
                  listenFrame >>

\* line 286: while '\n' in buffer
AfterLine(b) == IF Find(b, "\n") = 0 THEN "loop" ELSE "lines"

\* lines 279-286: recv() returns the next chunk, which is added to the buffer
ListenRecvChunk ==
  /\ Alive
  /\ tpc = "recv"
  /\ sock # None
  /\ fed < Len(feed)
  /\ received' = received \o feed[fed + 1]
  /\ fed' = fed + 1
  /\ lastRead' = "chunk"
  /\ tpc' = AfterLine(received')
  /\ UNCHANGED << mpc, running, sock, sockOpen, mon_state, assertions, now,
                  test_mode, started, line, notes, exitCause, exit_code,
                  processed, listenFrame >>

\* lines 286-301, 308-310: one pass of the inner loop: a complete line is
\* taken off the buffer, stripped, and passed to _process_event when it
\* starts with EVENT; an exception out of it leaves the outer loop
ListenLine ==
  /\ Alive
  /\ tpc = "lines"
  /\ received' = SplitFirst(received).rest
  /\ LET l == StripWs(SplitFirst(received).line)
     IN IF l = <<>> \/ ~StartsWith(l, sEVENT)
        THEN /\ tpc' = AfterLine(received')
             /\ UNCHANGED << mon_state, assertions, notes, line, processed,
                             running, exitCause >>
        ELSE /\ line' = l
             /\ processed' = Append(processed, Handled("event", l))
             /\ \E res \in { ProcessEvent(l, mon_state, assertions, MonDevice, now) } :
                  /\ mon_state' = res.state
                  /\ assertions' = res.assertions
                  /\ notes' = res.changes
                  /\ IF res.raised
                     THEN tpc' = "ended" /\ running' = FALSE /\ exitCause' = "line"
                     ELSE tpc' = AfterLine(received') /\ UNCHANGED << running, exitCause >>
  /\ UNCHANGED << mpc, sock, sockOpen, now, test_mode, started, exit_code, fed,
                  lastRead, listenFrame >>

\* main() up to its wait loop, the listen thread, and time
NextListen ==
  \/ StartMonitor
  \/ StartAssertion
  \/ TimersStarted
  \/ ListenFlag
  \/ ListenTimeout
  \/ ListenTest
  \/ ListenRecvTimeout
  \/ ListenRecvEnds
  \/ ListenRecvChunk
  \/ ListenLine
  \/ Tick

SpecListen == InitListen /\ [][NextListen]_vars

(***************************************************************************)
(* Properties of the candidate loop                                        *)
(***************************************************************************)
\* the places of _receiver_join inside the candidate loop of lines 348-412
LoopPcs ==
  {"stop", "soapSet", "soapPlay", "apiSet", "apiPlay", "descSet",
   "descSetEmpty", "descPlay", "poll"}

\* the places after the candidate loop, up to the orchestrator's report
PostLoopPcs == {"lastSet", "lastPlay", "verify", "report"}

\* the acceptance condition as the specification words it
AcceptCondition(c, st, g) ==
  g \/ (StartsWith(Lower(c), sOhzPrefix)
        /\ st \in {sPlaying, sBuffering, sConnecting})

\* C1: a candidate is accepted if and only if, at one of its polls, the
\* derived grouped flag is true or the candidate is an ohz:// URI and the
\* polled transport state is playing, buffering or connecting: ok is set
\* only with the condition true of the candidate's last poll, the polls of a
\* candidate go on only after a poll at which the condition was false, and
\* once ok is set the join is past the candidate loop, so that no later
\* candidate gets Stop, SetSender or Play from the loop.
C1_AcceptedIffConditionAtPoll ==
  /\ ok => AcceptCondition(cand, state, grouped_now)
  /\ (pc = "poll" /\ pi >= 1) => ~AcceptCondition(cand, state, grouped_now)
  /\ ok => pc \in PostLoopPcs
  /\ pc \in LoopPcs => ~ok

\* C1 witness: a candidate accepted by the special case alone (ohz:// URI and
\* an active transport state, the derived flag still false) while another
\* candidate was left untried
C1_Witness ==
  /\ ok
  /\ ~grouped_now
  /\ IsOhzCand(cand)
  /\ state \in ActiveStates
  /\ ci < Len(candidate_uris)
  /\ pc = "lastSet"

\* what remains of the work on one candidate, in steps
CmdRank ==
  [stop |-> 5, soapSet |-> 4, descSet |-> 4, soapPlay |-> 3, descSetEmpty |-> 3,
   apiSet |-> 2, apiPlay |-> 1, descPlay |-> 1]

CandRank == IF pc = "poll" THEN PollAttempts - pi ELSE PollAttempts + CmdRank[pc]

CandWeight == PollAttempts + 6

TailRank == [lastSet |-> 4, lastPlay |-> 3, verify |-> 2, report |-> 1]

BuildRank == 5 + 3 * CandWeight

\* what remains of the configuration of the follower in hand, in steps
StageRank ==
  IF pc \in PostLoopPcs THEN TailRank[pc]
  ELSE IF pc \in LoopPcs
       THEN 4 + (Len(candidate_uris) - ci) * CandWeight + CandRank
  ELSE IF pc = "build" THEN BuildRank
  ELSE IF pc = "senders" THEN BuildRank + 1 + (SendersAttempts - sq)
  ELSE IF pc = "leader" THEN BuildRank + SendersAttempts + 2
  ELSE IF pc = "join" THEN BuildRank + SendersAttempts + 3
  ELSE IF pc = "wake" THEN BuildRank + SendersAttempts + 4
  ELSE BuildRank + SendersAttempts + 5

FollowerWeight == BuildRank + SendersAttempts + 6

\* a natural number that every step of the run makes smaller
Rank ==
  IF pc = "done" THEN 0
  ELSE (NumReceivers - r) * FollowerWeight + StageRank

\* C2: for every receiver and every behaviour of the devices the join
\* terminates: a candidate gets at most 8 transport-state polls and the
\* candidates are taken once each, in order (so at most candidates x 8 polls),
\* the Senders loop makes at most 6 attempts, every step of the run lowers a
\* natural-number rank, and the run is never stuck before its end.
C2_JoinTerminates ==
  /\ [](pc \in LoopPcs => (ci \in 1..Len(candidate_uris) /\ pi <= PollAttempts))
  /\ [](pc = "poll" => pi < PollAttempts)
  /\ [](sq <= SendersAttempts /\ (pc = "senders" => sq < SendersAttempts))
  /\ [](pc # "done" => ENABLED Next)
  /\ [][Rank' < Rank]_vars

\* C2 witness: a join that has used every poll of its last candidate, all
\* candidates exhausted, and has returned
C2_Witness ==
  /\ pc = "verify"
  /\ recvPresent
  /\ ~ok
  /\ ci = Len(candidate_uris)
  /\ ci = 3
  /\ state # None
  /\ joined

\* C3: when all candidates are exhausted without any of them being accepted,
\* _receiver_join reports a failed join (joined = false) for the receiver.
C3_ExhaustedJoinReportsFailure ==
  (pc \in {"verify", "report"} /\ recvPresent /\ ~ok) => ~joined

\* C4: the last-resort raw SOAP application of the default candidate is
\* performed only when all candidates have failed: the join never stands
\* behind the last-resort SetSender with a candidate accepted.
C4_LastResortOnlyAfterFailure ==
  pc = "lastPlay" => ~ok

\* C5: the grouped / not-grouped outcome the orchestrator reports for a
\* receiver equals the acceptance decision the candidate loop made, whatever
\* the device does in response to the last-resort SetSender and Play.
C5_ReportEqualsLoopDecision ==
  (pc = "report" /\ recvPresent) => (grouped = ok)

(***************************************************************************)
(* Properties of the candidate list                                        *)
(***************************************************************************)
\* the candidate list stands complete and no candidate has been applied yet
ListBuilt == pc = "stop" /\ ci = 1

\* the index of the first res text of an item that starts with "ohz://"
FirstOhzIndex(it) ==
  CHOOSE k \in 1..Len(it.res) :
    /\ StartsWith(it.res[k], sOhzPrefix)
    /\ \A j \in 1..(k-1) : ~StartsWith(it.res[j], sOhzPrefix)

\* what the last answer of Receiver.Senders offers for the leader: the first
\* ohz:// res of the first item titled with the leader's room or name, else
\* the first ohz:// res of the list, else nothing
SendersFound ==
  IF inSenders.raised \/ inSenders.kind # "list" THEN None
  ELSE LET items   == inSenders.items
           HasOhz(i) == \E k \in 1..Len(items[i].res) :
                          StartsWith(items[i].res[k], sOhzPrefix)
           Titles  == {leader_room, leader_name} \ {None, <<>>}
           Exact   == { i \in 1..Len(items) :
                          /\ HasOhz(i)
                          /\ items[i].title # None
                          /\ Strip(items[i].title) \in Titles }
           WithOhz == { i \in 1..Len(items) : HasOhz(i) }
           Least(S) == CHOOSE m \in S : \A x \in S : m <= x
           Pick(i) == items[i].res[FirstOhzIndex(items[i])]
       IN IF Exact # {} THEN Pick(Least(Exact))
          ELSE IF WithOhz # {} THEN Pick(Least(WithOhz))
          ELSE None

\* the URI the leader's own Sender service reported, if it reported one
LeaderOwnUri ==
  IF inLeader.svc /\ ~inLeader.raised THEN Or(inLeader.Uri, inLeader.uri) ELSE None

\* what follows the first element of the list
LeaderOwnOrBuilt ==
  IF Truthy(LeaderOwnUri) THEN LeaderOwnUri
  ELSE BuildSenderUri(Udn, leader_name, leader_room)

ExpectedList ==
  << IF Truthy(SendersFound) THEN SendersFound ELSE DefaultOhz(Udn) >>
  \o (IF Truthy(LeaderOwnUri) THEN << LeaderOwnUri, LeaderOwnUri >>
      ELSE << BuildSenderUri(Udn, leader_name, leader_room) >>)

\* C7: with the sender's identifier known the candidate list is never empty,
\* and it is a function of the device responses (the sender's own Sender
\* answer, the Senders list, the room, the name): identical responses give
\* the identical list in the identical order, however many Senders attempts
\* failed before.
C7_ListNonEmptyAndDetermined ==
  ListBuilt =>
    /\ candidate_uris # <<>>
    /\ candidate_uris = ExpectedList

\* C7 witness: both queries raised, all six Senders attempts were used, and a
\* list was built all the same
C7_Witness ==
  /\ ListBuilt
  /\ inLeader.raised
  /\ inSenders.raised
  /\ sq = SendersAttempts
  /\ candidate_uris = << DefaultOhz(Udn), BuildSenderUri(Udn, leader_name, leader_room) >>

(***************************************************************************)
(* Properties of _is_grouped and of joining a grouped receiver             *)
(***************************************************************************)
\* C8: _is_grouped is true exactly when the scheme of the receiver's sender
\* URI is ohz or the transport state is playing, buffering or connecting in
\* any letter case, for every combination of a scheme class (ohz, descriptor,
\* unknown or empty) with a transport state.
C8_GroupedIffOhzOrActive ==
  gdone => (gres = (gq.recv /\ (gq.cls = "ohz" \/ gq.active)))

\* C8 witness: (ohz, idle) gives true
C8_Witness ==
  /\ gdone
  /\ gq.cls = "ohz"
  /\ gq.ts = TsResp(FALSE, <<"i","d","l","e">>, None)
  /\ gres

C11_FailureDoesNotAbort ==
  [][ /\ r' \in {r, r + 1}
      /\ r' = r + 1 => (pc \in {"init", "report"} /\ pc' = "init")
      /\ pc' = "done" => (r = NumReceivers /\ pc \in {"init", "report", "done"})
    ]_vars

\* C11 witness: the second follower verified as grouped after an earlier
\* follower had failed
C11_Witness ==
  /\ r = 2
  /\ pc = "report"
  /\ grouped
  /\ ~all_ok

\* a follower has joined when the run took it up, initialised it and verified
\* it as grouped
JoinedAll == \A i \in 1..nslaves : i <= Len(outcomes) /\ outcomes[i].grouped

\* follower i failed: its initialisation raised, or its join reported failure
FailedToJoin(i) == ~outcomes[i].init \/ ~outcomes[i].joined \/ ~outcomes[i].grouped

NoteMatches ==
  /\ note.device_id = before.device_id
  /\ note.variable = before.variable
  /\ note.value = before.expected_value

\* C14: an assertion becomes met only by a notification for the same device
\* id and the same variable whose new value is the expected value; a
\* notification for another device, another variable or another value changes
\* no field of the assertion (and check returns false).
C14_MetOnlyByMatchingNotification ==
  done =>
    /\ (assertions[1].met /\ ~before.met) => (NoteMatches /\ ret)
    /\ ~NoteMatches => (assertions[1] = before /\ ~ret)

\* C14 witness: an unmet assertion given a notification of its own variable
\* and value but of the other device
C14_Witness ==
  /\ done
  /\ ~before.met
  /\ note.device_id # before.device_id
  /\ note.variable = before.variable
  /\ note.value = before.expected_value
  /\ ~assertions[1].met

\* C16: check on an assertion that is already met returns false and leaves
\* met, met_time and actual_value (and every other field) as they were,
\* whatever the notification, a matching one included.
C16_CheckOnMetIsNoOp ==
  (done /\ before.met) =>
    /\ ~ret
    /\ assertions[1].met
    /\ assertions[1].met_time = before.met_time
    /\ assertions[1].actual_value = before.actual_value
    /\ assertions[1] = before

\* C16 witness: a met assertion given a matching notification at a later time
C16_Witness ==
  /\ done
  /\ before.met
  /\ NoteMatches
  /\ now > before.met_time

(***************************************************************************)
(* Properties of the event processing of the monitor                       *)
(***************************************************************************)
\* the recognized variables the line carries with a value that differs from
\* the snapshot before the call, in the order of RecognizedVars
ExpectedChanges ==
  LET idx == SelectSeq(<<1, 2, 3, 4>>,
                       LAMBDA i : /\ Carried(line, i) # None
                                  /\ Carried(line, i) # before[RecognizedVars[i]])
  IN [n \in 1..Len(idx) |->
        Change(RecognizedVars[idx[n]], before[RecognizedVars[idx[n]]],
               Carried(line, idx[n]))]

\* C17: processing one EVENT line sets the snapshot entry of each recognized
\* variable the line carries to the line's value, leaves the other entries,
\* and emits exactly one change notification for each recognized variable
\* whose value differs from the prior snapshot and none for one whose value
\* is unchanged; a line that is malformed or carries no recognized variable
\* changes nothing and emits nothing.
C17_OneNotificationPerChangedVariable ==
  done =>
    /\ \A i \in 1..4 :
         mon_state[RecognizedVars[i]] =
           (IF Carried(line, i) # None THEN Carried(line, i)
            ELSE before[RecognizedVars[i]])
    /\ notes = ExpectedChanges

\* C17 witness: the line carrying TransportState and Status processed on a
\* snapshot from which both differ, with two notifications emitted
C17_Witness ==
  /\ done
  /\ line = <<"E","V","E","N","T"," ","3"," ","T","r","a","n","s","p","o","r","t","S","t","a","t","e"," ","\"","P","l","a","y","i","n","g","\""," ","S","t","a","t","u","s"," ","\"","Y","e","s","\"">>
  /\ before[sTransportState] = sStopped
  /\ before[sStatus] = None
  /\ Len(notes) = 2
  /\ mon_state[sTransportState] = sDevPlaying
  /\ mon_state[sStatus] = vYes

(***************************************************************************)
(* Properties of the monitor's threads                                     *)
(***************************************************************************)
\* the status of an assertion at time t, as status_string tells it
StatusOf(self, t) ==
  IF self.met THEN "met" ELSE IF is_expired(self, t) THEN "expired" ELSE "pending"

\* C13 as stated: a status of met or expired is final: once met an assertion
\* stays met, and once expired it never becomes met, whatever notifications
\* and clock ticks follow.
C13_TerminalStatusIsFinal ==
  [][ \A i \in 1..Len(assertions) :
        StatusOf(assertions[i], now) \in {"met", "expired"}
          => StatusOf(assertions'[i], now') = StatusOf(assertions[i], now) ]_vars

\* C15 as stated: no assertion is ever met while its start_time is unset.
C15_NeverMetUnstarted ==
  \A i \in 1..Len(assertions) :
    assertions[i].met => TimeSet(assertions[i].start_time)

\* C18 as stated: the read loop is left only on connection death (an empty
\* read or a socket error) or on the stop signal, never by processing a line.
C18_LoopEndsOnlyOnDeathOrStop ==
  tpc \in {"ended", "crashed"} => exitCause \in {"empty", "error", "stop"}

\* C19 as stated: no monitor whose read loop has ended keeps its socket open.
C19_LoopEndedMeansSocketClosed ==
  tpc \in {"ended", "crashed"} => ~sockOpen

\* C20 as stated: once stop() has returned the socket is closed and the
\* thread, when it has left listen(), has left it with running = false.
C20_StoppedMeansClosedAndNotRunning ==
  mpc = "stopped" =>
    /\ ~sockOpen
    /\ tpc \in {"ended", "crashed"} => ~running

\* C21 as stated: in test mode the process exits with code 0 only if every
\* assertion was met; with an assertion unmet when the run ended, however it
\* ended, the exit code is non-zero.
C21_ExitZeroOnlyIfAllMet ==
  (mpc = "exited" /\ test_mode /\ exit_code = 0) =>
    \A i \in 1..Len(assertions) : assertions[i].met

(***************************************************************************)
(* Properties of the configuration                                         *)
(***************************************************************************)
\* the monitors that hold assertion k of the test
OwnersOf(k) ==
  { i \in 1..Len(monitors) :
      \E j \in 1..Len(monitors[i].assertions) : monitors[i].assertions[j] = k }

\* C22 as stated: for every configuration each assertion is held by at most
\* one DeviceMonitor, so that no two monitor threads check the same assertion.
C22_AssertionOwnedByOneMonitor ==
  mpc = "start" => \A k \in 1..Len(assertions) : Cardinality(OwnersOf(k)) <= 1

\* the file is the only source of the configuration and is in error: it
\* cannot be read, the sender is not resolved, or a token named as sender or
\* receiver has no device entry
ConfigError ==
  /\ ~config.arg_master
  /\ config.arg_slaves = 0
  /\ \/ ~config.readable
     \/ ~MasterResolved(config)
     \/ \E i \in 1..Len(config.member_ids) : config.member_ids[i] \notin config.devices

\* C23 as stated: with a configuration in error the process exits non-zero
\* before any command is sent to any device (the leader is never woken, no
\* follower is taken up).
C23_ConfigErrorIsFatal ==
  ConfigError =>
    /\ r = 0
    /\ outcomes = <<>>
    /\ pc = "exited" => exit_code # 0


(***************************************************************************)
(* C24: the followers are joined one at a time in the order of the         *)
(* configuration.  Every command of the model goes to follower r, so the   *)
(* claim is that r moves only forward by one, and only when the follower   *)
(* in hand is finished: its verification was reported, or its device could *)
(* not be initialised; the next follower then starts with no command sent. *)
(***************************************************************************)
C24_OneJoinAtATime ==
  [][ r' # r =>
        /\ r' = r + 1
        /\ pc = "report" \/ (pc = "init" /\ ~all_ok')
        /\ pc' = "init"
        /\ sent' = {} ]_vars

\* the second follower being commanded, after the first was finished
C24_Witness == r = 2 /\ sent = {"Stop", "SetSender", "Play"} /\ pc = "poll"


(***************************************************************************)
(* C25: the candidates are tried in list order, and for each candidate the *)
(* commands are ordered Stop, SetSender, Play, polling: the polls of a     *)
(* candidate start only from a step that issued its Play, a Play follows   *)
(* only a SetSender, a SetSender follows only the Stop or an earlier       *)
(* attempt at the same candidate, and at most 8 polls are made.            *)
(***************************************************************************)
SetSenderSteps == {"soapSet", "apiSet", "descSet", "descSetEmpty"}

PlaySteps == {"soapPlay", "apiPlay", "descPlay"}

C25_StopSetSenderPlayThenPoll ==
  [][ /\ ci' \in {ci, ci + 1, 0}
      /\ (pc' = "poll" /\ pc # "poll") => pc \in PlaySteps
      /\ pc' \in PlaySteps => pc \in SetSenderSteps
      /\ pc' \in SetSenderSteps => pc \in {"stop"} \cup SetSenderSteps \cup PlaySteps
      /\ pc' = "stop" => ci' = ci + 1
      /\ pc' = "poll" => (ci' = ci /\ pi' < PollAttempts)
    ]_vars


(***************************************************************************)
(* C28: the Senders list of the follower is queried at most 6 times in a   *)
(* join.  Each query, whatever it returns, uses up exactly one attempt;    *)
(* the loop is left at the first attempt that yields an ohz URI, and       *)
(* otherwise goes on until the sixth attempt.                              *)
(***************************************************************************)
C28_SendersQueriedAtMostSixTimes ==
  [][ /\ sq' <= SendersAttempts
      /\ pc = "senders" =>
            /\ sq < SendersAttempts
            /\ sq' = sq + 1
            /\ Truthy(ohz_uri') => pc' = "build"
            /\ ~Truthy(ohz_uri') => (pc' = "senders" <=> sq' < SendersAttempts)
      /\ pc # "senders" => sq' \in {sq, 0}
    ]_vars

\* the loop left at its third attempt, after two attempts that gave nothing
C28_Witness == pc = "build" /\ sq = 3 /\ Truthy(ohz_uri)


(***************************************************************************)
(* C29: the resolution of the candidates never raises.  Once the join has  *)
(* its Receiver service, every step of the resolution is followed by the   *)
(* next one whatever failed: a leader Sender query that raised gives the   *)
(* built descriptor alone, a Senders query that raised or did not parse    *)
(* gives no ohz URI, and the join is not left before a candidate list that *)
(* is not empty was handed to the candidate loop.                          *)
(***************************************************************************)
ResolutionSteps == {"leader", "senders", "build"}

C29_ResolutionNeverRaises ==
  [][ /\ (pc = "join" /\ recvPresent) => pc' = "leader"
      /\ pc \in ResolutionSteps =>
            /\ pc' \in ResolutionSteps \cup {"stop"}
            /\ r' = r /\ joined' = joined /\ all_ok' = all_ok
      /\ (pc = "leader" /\ inLeader'.raised) =>
            candidate_uris' = << BuildSenderUri(Udn, leader_name, leader_room) >>
      /\ (pc = "senders" /\ (inSenders'.raised \/ inSenders'.kind # "list")) =>
            ohz_uri' = None
      /\ pc = "build" =>
            (pc' = "stop" /\ ci' = 1 /\ Len(candidate_uris') > Len(candidate_uris))
    ]_vars

\* the room lookup gave nothing, the leader's Sender query raised, the last
\* Senders answer was not XML, and the list goes to the candidate loop
C29_Witness ==
  /\ pc = "stop"
  /\ ci = 1
  /\ leader_room = None
  /\ inLeader.raised
  /\ inSenders.kind = "badxml"
  /\ Len(candidate_uris) = 2


(***************************************************************************)
(* C26: a wake that fails is not fatal.  When set_standby raises,          *)
(* wake_device returns False and nothing is raised: the next step of the   *)
(* follower is its source selection, and after it the join, as for a       *)
(* follower whose wake succeeded.                                          *)
(***************************************************************************)
C26_FailedWakeIsNotFatal ==
  [][ /\ pc = "wake" =>
           /\ pc' = "source"
           /\ woke' = (IF product.standbyRaises THEN "False" ELSE "True")
      /\ (pc = "source" /\ woke = "False") => (pc' = "join" /\ srcRet' # "none")
      /\ (pc = "join" /\ woke = "False") => pc' = "verify"
      /\ woke # "none" => woke' = woke
    ]_vars

\* the join of a follower whose wake failed was made, after its source was set
C26_Witness ==
  /\ pc = "verify"
  /\ product.standbyRaises
  /\ woke = "False"
  /\ srcRet = "True"
  /\ joined

(***************************************************************************)
(* C27: set_source_to_songcast issues no SetSourceIndex when the current   *)
(* source, as the device reports it, is the Songcast receiver source.      *)
(* Otherwise it sets the lowest index below the source count whose source  *)
(* is shown and is the receiver source; when there is none it issues no    *)
(* call and returns False.  The join follows in every case.  A query that  *)
(* raises tells nothing: such a source is neither current nor selectable.  *)
(***************************************************************************)
\* the index the device reports as current, when it reports one it has
CurrentKnown(p) ==
  /\ p.svc
  /\ ~p.cur.raised
  /\ \E i \in 0..(Len(p.sources) - 1) :
       /\ TextOf(i) = (IF p.cur.Value # None THEN p.cur.Value ELSE p.cur.Index)
       /\ ~p.sources[i + 1].raised

CurrentIndex(p) ==
  CHOOSE i \in 0..(Len(p.sources) - 1) :
    TextOf(i) = (IF p.cur.Value # None THEN p.cur.Value ELSE p.cur.Index)

AlreadyOnSongcast(p) == CurrentKnown(p) /\ p.sources[CurrentIndex(p) + 1].isReceiver

\* the count the device reports: none when the query fails or makes no number
CountKnown(p) == p.svc /\ ~p.count.raised /\ p.count.Value # <<"x">>

\* the indices of the sources that can be selected
Selectable(p) ==
  IF ~CountKnown(p) THEN {}
  ELSE { i \in 0..(Len(p.sources) - 1) :
           /\ ~p.sources[i + 1].raised
           /\ p.sources[i + 1].shown
           /\ p.sources[i + 1].isReceiver }

Lowest(S) == CHOOSE i \in S : \A j \in S : i <= j

SelectionRule(p, cs, rt) ==
  IF AlreadyOnSongcast(p) THEN cs = <<>> /\ rt = "True"
  ELSE IF Selectable(p) = {} THEN cs = <<>> /\ rt = "False"
  ELSE /\ cs # <<>>
       /\ \A k \in 1..Len(cs) : cs[k].index = Lowest(Selectable(p))

C27_SourceSelection ==
  [][ /\ pc = "source" => (pc' = "join" /\ SelectionRule(product, calls', srcRet'))
      /\ pc = "join" => (pc' = "verify" /\ calls' = calls)
    ]_vars

\* a hidden receiver source and a radio come first: the third source is set,
\* and the join was made
C27_Witness ==
  /\ pc = "verify"
  /\ product.sources = << SrcHidden, SrcRadio, SrcReceiver >>
  /\ calls = << SetCall("aIndex", 2) >>
  /\ srcRet = "True"


(***************************************************************************)
(* C30: the set-up of an event connection is ordered.  Nothing is sent     *)
(* before the socket is connected and the announcements were read (up to   *)
(* an ALIVE Ds or the end of the window); what is sent is exactly one      *)
(* empty line and then exactly one SUBSCRIBE.  The listening thread is     *)
(* started only when text came back after the SUBSCRIBE and was parsed     *)
(* into the snapshot; when nothing came back the thread is not started and *)
(* the socket is closed.                                                   *)
(***************************************************************************)
C30_ConnectionSetupOrdered ==
  /\ wire \in { <<>>, << sBlankLine >>, << sBlankLine, sSubscribe >> }
  /\ mpc \in {"connect", "announce"} => wire = <<>>
  /\ mpc = "blank" =>
       sock = Socket /\ (HasAliveDs(received) => received[Len(received)] = sAliveDs)
  /\ tpc # "none" =>
       /\ wire = << sBlankLine, sSubscribe >>
       /\ \E k \in 1..Len(received) : received[k] \notin { <<" ">>, <<>> }
       /\ mon_state = ParseInitialEvent(received, EmptyState)
       /\ sockOpen
  /\ (mpc = "failed" /\ Len(wire) = 2) =>
       tpc = "none" /\ sock = None /\ ~sockOpen
  /\ (mpc \in {"closing", "failed"} /\ Len(wire) = 2) =>
       mon_state = EmptyState
  /\ (mpc = "thread" \/ mpc = "started") =>
       \E k \in 1..Len(received) : received[k] \notin { <<" ">>, <<>> }

\* the thread runs on a connection whose initial event seeded the snapshot
C30_Witness ==
  /\ mpc = "started"
  /\ tpc = "t269"
  /\ wire = << sBlankLine, sSubscribe >>
  /\ received = << <<"S","U","B","S","C","R","I","B","E"," ","1">>, <<"E","V","E","N","T"," ","0"," ","T","r","a","n","s","p","o","r","t","S","t","a","t","e"," ","\"","S","t","o","p","p","e","d","\"">> >>
  /\ mon_state[sTransportState] = sStopped


(***************************************************************************)
(* C37: the candidate list handed to the candidate loop never holds the    *)
(* same URI twice, whatever the leader's Sender query and the Senders list *)
(* gave.                                                                   *)
(***************************************************************************)
C37_NoDuplicateCandidate ==
  (pc = "stop" /\ ci = 1) =>
    \A i, j \in 1..Len(candidate_uris) :
      candidate_uris[i] = candidate_uris[j] => i = j


\* C33: with the Songcast source selected, the status reporter's
\* is_songcast_grouped gives the same boolean as the join flow's _is_grouped
\* on every pair of sender URI and transport state.
C33_ReporterAgreesWithJoin ==
  (np.done /\ np.songcast /\ gq.recv) => np.grouped = gres


(***************************************************************************)
(* C36: a control call that fails while a candidate is applied or polled   *)
(* ends at most the attempt at that candidate.  Every step of the          *)
(* candidate loop stays in the loop or hands over to the last-resort       *)
(* SetSender; a SOAP failure falls back to the API on the same candidate,  *)
(* a SetSender that fails twice on the descriptor path goes on to the next *)
(* candidate, the loop is left without an accepted candidate only after    *)
(* the last one, and the join then returns True.                           *)
(***************************************************************************)
CandidateSteps == {"stop", "poll"} \cup SetSenderSteps \cup PlaySteps

C36_FailureEndsAtMostTheCandidate ==
  [][ /\ pc \in CandidateSteps =>
            /\ pc' \in CandidateSteps \cup {"lastSet"}
            /\ r' = r /\ joined' = joined /\ all_ok' = all_ok
            /\ ci' \in {ci, ci + 1}
            /\ ci' = ci + 1 => (pc' = "stop" /\ ci < Len(candidate_uris))
            /\ (pc' = "lastSet" /\ ~ok') => ci = Len(candidate_uris)
      /\ (pc \in {"soapSet", "soapPlay"} /\ pc' # "soapPlay" /\ pc' # "poll") =>
            (pc' = "apiSet" /\ ci' = ci)
      /\ (pc = "apiSet" /\ pc' # "apiPlay") => (pc' = "poll" /\ ci' = ci)
      /\ (pc = "descSetEmpty" /\ pc' # "descPlay") =>
            IF ci < Len(candidate_uris) THEN pc' = "stop" /\ ci' = ci + 1
                                        ELSE pc' = "lastSet"
      /\ (pc \in {"lastSet", "lastPlay"} /\ pc' # "lastPlay") =>
            (pc' = "verify" /\ joined')
    ]_vars

\* the first candidate was left without a Play, after SetSender calls that
\* raised, and the second candidate is taken up
C36_Witness ==
  /\ pc = "stop"
  /\ r = 1
  /\ ci = 2
  /\ ~ok
  /\ "SetSender" \in sent
  /\ "Play" \notin sent


(***************************************************************************)
(* C35: wait_for_state returns (True, s) only with s the state of the last *)
(* query, not None, holding every expected entry; it returns               *)
(* (False, last queried state) only once the timeout has elapsed; and it   *)
(* always returns.                                                         *)
(***************************************************************************)
SameResult(a, b) == a.some = b.some /\ (a.some => a.val = b.val)

WaitReturnsRight ==
  /\ wret.returned <=> wait.at = "returned"
  /\ (wret.returned /\ wret.success) =>
        /\ wret.state.some
        /\ SameResult(wret.state, last_state)
        /\ \A i \in 1..Len(wait.expected_state) :
              StateGet(wret.state.val, wait.expected_state[i][1])
                = wait.expected_state[i][2]
  /\ (wret.returned /\ ~wret.success) =>
        /\ wait.now - wait.start >= wait.timeout
        /\ SameResult(wret.state, last_state)

C35_WaitForState == [] WaitReturnsRight /\ <> wret.returned

\* success at a second poll, after a query that failed or did not match
C35_Witness ==
  /\ wret.returned
  /\ wret.success
  /\ wait.now > wait.start
  /\ Len(wait.expected_state) = 2

\* the timeout elapsed with a state from the last query that does not match
C35_WitnessTimeout ==
  /\ wret.returned
  /\ ~wret.success
  /\ wret.state.some
  /\ wait.timeout > 0


(***************************************************************************)
(* C40: from the return of start() until the read loop of the monitor      *)
(* exits, the running flag is true: while main() has not called stop() and *)
(* the listen thread has not ended, running holds, so that main's test     *)
(* "no monitor is running" cannot succeed on a monitor whose loop lives.   *)
(***************************************************************************)
C40_RunningWhileLoopLives ==
  (mpc \in {"timers", "wait"} /\ tpc \in {"t269", "t273", "loop", "recv"}) => running


(***************************************************************************)
(* C34: in test mode the wait loop of main() ends.  With the timers        *)
(* started (early enough for the expiry to fall within the ticks looked    *)
(* at), the loop is left, and it is left for the results only when every   *)
(* assertion is met or expired or no monitor is running; the results are   *)
(* followed by stop() of the monitor, which closes its socket.             *)
(***************************************************************************)
TimersWillExpire ==
  \A i \in 1..Len(assertions) :
     /\ TimeSet(assertions[i].start_time)
     /\ assertions[i].start_time + assertions[i].within_seconds < MaxTestTime

AllDone ==
  \A i \in 1..Len(assertions) : assertions[i].met \/ is_expired(assertions[i], now)

C34_TestLoopEnds ==
  /\ [][ (mpc = "wait" /\ mpc' = "results") => (AllDone \/ ~running) ]_mpc
  /\ [](mpc = "wait" => \A i \in 1..Len(assertions) : TimeSet(assertions[i].start_time))
  /\ (mpc = "wait" /\ TimersWillExpire) ~> (mpc # "wait")
  /\ (mpc = "results") ~> (mpc = "stopped" /\ sock = None /\ ~sockOpen)

\* the loop was left with the monitor still running and no assertion met:
\* both assertions had expired
C34_Witness ==
  /\ mpc = "results"
  /\ running
  /\ Len(assertions) = 2
  /\ \A i \in 1..Len(assertions) :
        ~assertions[i].met /\ is_expired(assertions[i], now)


(***************************************************************************)
(* C31: a read timeout in the loop of listen() is an idle tick.  The step  *)
(* of the listen thread whose recv() timed out leaves the snapshot, the    *)
(* assertions, the running flag, the buffer and the lines handled as they  *)
(* were, and takes the thread back to the test of the loop.                *)
(***************************************************************************)
C31_TimeoutIsIdleTick ==
  [][ (tpc = "recv" /\ tpc' # tpc /\ lastRead' = "timeout") =>
         /\ tpc' = "loop"
         /\ mon_state' = mon_state
         /\ assertions' = assertions
         /\ running' = running
         /\ received' = received
         /\ processed' = processed
         /\ fed' = fed
    ]_vars

\* after a timeout the loop went on: the thread reads again, with an event
\* handled before and chunks still to come
C31_Witness ==
  /\ tpc = "recv"
  /\ lastRead = "timeout"
  /\ running
  /\ fed < Len(feed)
  /\ \E i \in 1..Len(processed) : processed[i].by = "event"


(***************************************************************************)
(* C32: the snapshot of a monitor holds, for each recognized variable, the *)
(* value of the most recent handled line that carried it (the lines of the *)
(* subscription response included), and nothing for a variable no handled *)
(* line carried; it changes only in the monitor's own seeding and in its   *)
(* own listen thread's handling of a line.                                 *)
(***************************************************************************)
\* what a reader of the protocol sees in each line the devices of the model
\* send: TransportState, Sender, Status, ProtocolInfo (None: not in the line)
LineCarries(l) ==
  IF l = lInitStopped \/ l = lStopped THEN << sStopped, None, None, None >>
  ELSE IF l = lInitPlaying THEN << sDevPlaying, None, vYes, None >>
  ELSE IF l = lPlaying \/ l = lPlayingAgain THEN << sDevPlaying, None, None, None >>
  ELSE IF l = lStatusYes THEN << None, None, vYes, None >>
  ELSE << None, None, None, None >>

\* the value of the i-th recognized variable in the last of the first n
\* handled lines that carries it
RECURSIVE LastCarried(_, _, _)
LastCarried(hs, n, i) ==
  IF n = 0 THEN None
  ELSE IF LineCarries(hs[n].line)[i] # None THEN LineCarries(hs[n].line)[i]
       ELSE LastCarried(hs, n - 1, i)

SnapshotIsLastSeen ==
  mpc # "start" =>
    \A i \in 1..Len(RecognizedVars) :
       mon_state[RecognizedVars[i]] = LastCarried(processed, Len(processed), i)

C32_SnapshotHoldsLastValues ==
  /\ [] SnapshotIsLastSeen
  /\ [][ mon_state' # mon_state => (mpc = "start" \/ tpc = "lines") ]_vars

\* the snapshot after a seeded initial event and three handled events, the
\* last value of TransportState replacing two earlier ones and Status kept
\* from the initial event
C32_Witness ==
  /\ Len(processed) = 4
  /\ processed[1].by = "seed"
  /\ \A i \in 2..4 : processed[i].by = "event"
  /\ processed[4].line = lPlayingAgain
  /\ mon_state[sTransportState] = sDevPlaying
  /\ mon_state[sStatus] = vYes


(***************************************************************************)
(* C38: seeding the snapshot from the subscription response notifies       *)
(* nobody and checks no assertion.  start() leaves the assertions and the  *)
(* changes shown as they were; while only seeded lines were handled no     *)
(* assertion is met; an assertion becomes met only in the handling of a    *)
(* line with an event that changed its variable to the expected value      *)
(* from another one; and an assertion that was started and stays unmet is  *)
(* expired once its time is over.                                          *)
(***************************************************************************)
MetOnlyByAChange ==
  \A i \in 1..Len(assertions) :
     (assertions'[i].met /\ ~assertions[i].met) =>
        /\ tpc = "lines"
        /\ \E j \in 1..Len(notes') :
              /\ notes'[j].variable = assertions[i].variable
              /\ notes'[j].new = assertions[i].expected_value
              /\ notes'[j].old # assertions[i].expected_value

C38_SeedingChecksNothing ==
  /\ [][ /\ mpc = "start" => (assertions' = assertions /\ notes' = notes)
         /\ MetOnlyByAChange ]_vars
  /\ []( (\A k \in 1..Len(processed) : processed[k].by = "seed") =>
            \A i \in 1..Len(assertions) : ~assertions[i].met )
  /\ []( \A i \in 1..Len(assertions) :
            ( /\ TimeSet(assertions[i].start_time)
              /\ ~assertions[i].met
              /\ now - assertions[i].start_time > assertions[i].within_seconds ) =>
            status_string(assertions[i], now).text = "FAIL" )

\* the expected value was in the seeded snapshot, an event repeating it was
\* handled, and the assertion, started, has expired unmet
C38_Witness ==
  /\ Len(processed) >= 2
  /\ processed[1] = Handled("seed", lInitPlaying)
  /\ processed[Len(processed)] = Handled("event", lPlaying)
  /\ Len(assertions) >= 1
  /\ assertions[1].expected_value = mon_state[assertions[1].variable]
  /\ ~assertions[1].met
  /\ is_expired(assertions[1], now)


(***************************************************************************)
(* C39: no event is lost between subscribe() and listen().  Once the       *)
(* listen thread has read everything the device sent, and no exception     *)
(* ended it, every EVENT line the device sent after the initial event was  *)
(* passed to _process_event exactly once.                                  *)
(***************************************************************************)
\* the lines the device sent after its initial event
DeviceEvents ==
  LET ls == SplitLines(Concat(feed))
      first == CHOOSE k \in 1..Len(ls) :
                 IsInitialEvent(ls[k]) /\ \A j \in 1..(k - 1) : ~IsInitialEvent(ls[j])
  IN SubSeq(ls, first + 1, Len(ls))

TimesProcessed(l) ==
  Cardinality({ k \in 1..Len(processed) : processed[k] = Handled("event", l) })

C39_NoEventLost ==
  ( /\ mpc # "start"
    /\ tpc \in {"loop", "recv"}
    /\ exitCause = "none"
    /\ fed = Len(feed) ) =>
  \A i \in 1..Len(DeviceEvents) : TimesProcessed(DeviceEvents[i]) = 1

=============================================================================
